---- MODULE Spec2Model ----
(***************************************************************************)
(* A model of the data-access and caching layer of Alpaca:                 *)
(*   - the model_pin operations (tests/test_model_pinning.py),             *)
(*   - the chat / message / attachment / chat_folder gateway               *)
(*     (src/sql_manager.py),                                               *)
(*   - the TTL cache for model information (src/services/model_cache.py).  *)
(* Each subsystem has its own variables and its own specification; the     *)
(* variables of the other subsystems stay at their initial values.         *)
(***************************************************************************)
EXTENDS Integers, FiniteSets, Sequences, TLC

VARIABLES
    model_pin,      \* the model_pin table: a set of rows
    pinSeq,         \* number of ids generate_uuid() has handed to inserted pins
    pinUpdates,     \* number of update_model_pin_order calls made so far
    pinLast,        \* the last model_pin call: its arguments and its result
    chat,           \* the chat table: rows [id, name, folder, is_template]
    message,        \* the message table: rows [id, chat_id]
    attachment,     \* the attachment table: rows [id, message_id]
    chat_folder,    \* the chat_folder table: rows [id, parent]
    attSeq,         \* number of ids generate_uuid() has handed to attachments
    dbLast,         \* the last gateway call: operation, argument, outcome
    cache,          \* ModelInfoCache._cache: key -> (model_info, timestamp)
    now,            \* what time.time() returns
    written,        \* per key, the last set() not followed by an invalidate()
                    \* or clear(): its value, its time, the hits since then
    invalidated,    \* the keys an invalidate() removed, with no set() since
    cacheLast,      \* the last cache call: operation, key, result
    lock,           \* ModelInfoCache._lock: the thread that holds it, or NoThread
    thr,            \* per thread: where it is in a cache method, and its locals
    ownSet,         \* per thread, the key of its last set() if only set() and
                    \* get() calls were made since, by any thread
    global_cache,   \* the module global _global_cache: an instance, or 0 (None)
    constructed,    \* number of ModelInfoCache() instances constructed so far
    gc,             \* per thread: where it is in get_cache(), the instance it
                    \* constructed, the instance it was returned last
    uuidSeq,        \* number of ids generate_uuid() has handed to import_chat for
                    \* chats and messages
    imports,        \* number of import_chat calls made so far
    impLast,        \* the last import_chat call: its arguments, the import
                    \* database as attached and as left, the rows returned
    statistics,     \* the statistics table: rows [id, event_type, model,
                    \* tokens_used, response_time_ms, timestamp]
    statSeq,        \* number of record_* calls made so far: generate_uuid()
                    \* returns a new id at each
    datetime_now,   \* what datetime.now() returns, in ticks
    statLast,       \* the last statistics call: its arguments and its result;
                    \* call alternates between 0 and 1 with every call
    tool_parameters, \* the table tool_parameters of earlier versions: whether
                    \* it exists, and its rows [name]
    backup_schedule, \* the backup_schedule table: rows [id, last_backup, enabled]
    schedSeq,       \* number of ids generate_uuid() has handed to schedules
    files,          \* the database files beside the live one: path -> tables
    bkLast,         \* the last BackupService call: arguments and result;
                    \* call alternates between 0 and 1 with every call
    sqlite_con,     \* SQLiteConnection.sqlite_con of the operation in progress:
                    \* whether it is open and in a transaction
    conPc,          \* where that operation is: in the with block, in __exit__,
                    \* returned or raised
    pending,        \* the database as the open transaction has written it
    bodyRaised,     \* whether the with block raised
    reader,         \* whether another connection holds a SHARED lock
    leaked,         \* number of connections earlier operations left open
    pinCon,         \* per connection: the position of its pin_model call and its locals
    writer,         \* the connection whose transaction holds the write lock
    nameLast,       \* the last generate_numbered_name call: arguments, result
    rfStack,        \* the frames of the running remove_folder call, innermost last
    rfLast,         \* the last remove_folder call: argument, folders visited, returned
    entry_text,         \* the text of the search entry
    search_timeout_id,  \* the pending debounce timer: its query, or None
    searchThreads,      \* the queries of the search threads still running
    idleQueue,          \* the idle callbacks not yet run, oldest first
    results_listbox,    \* the query whose result rows the list shows, or None
    results_stack,      \* the visible page of the results stack
    current_results,    \* the query whose results _current_results holds, or None
    gsEvents,           \* number of entry events handled
    enabled,                \* MessageVirtualizationManager.enabled
    update_timeout_id,      \* whether _update_timeout_id names a timer
    pendingUpdates,         \* timers that will call _update_visible_messages
    loads,                  \* number of on_messages_loaded calls
    vadj_value,             \* the value of the vertical adjustment
    last_adjustment_value,  \* _last_adjustment_value
    message_count,          \* number of messages in the container
    visible,                \* the messages whose get_visible() is True
    mvLast,                 \* the last manager operation, and enabled when it ran
    sqlTables,      \* the database file: table name -> [columns, rows, first]
    initRuns,       \* number of initialize() runs so far
    initLast        \* the last initialize() run: parity, raised or not, the file it left

pinVars == <<model_pin, pinSeq, pinUpdates, pinLast>>

dbVars == <<chat, message, attachment, chat_folder, attSeq, dbLast>>

cacheVars == <<cache, now, written, invalidated, cacheLast>>

thrVars == <<lock, thr, ownSet>>

gcVars == <<global_cache, constructed, gc>>

impVars == <<uuidSeq, imports, impLast>>

statVars == <<statistics, statSeq, datetime_now, statLast>>

bkVars == <<tool_parameters, backup_schedule, schedSeq, files, bkLast>>

conVars == <<sqlite_con, conPc, pending, bodyRaised, reader, leaked>>

pcVars == <<pinCon, writer>>

nmVars == <<nameLast>>

rfVars == <<rfStack, rfLast>>

gsVars == <<entry_text, search_timeout_id, searchThreads, idleQueue, results_listbox, results_stack, current_results, gsEvents>>

mvVars == <<enabled, update_timeout_id, pendingUpdates, loads, vadj_value, last_adjustment_value, message_count, visible, mvLast>>

initVars == <<sqlTables, initRuns, initLast>>

vars == <<model_pin, pinSeq, pinUpdates, pinLast,
          chat, message, attachment, chat_folder, attSeq, dbLast,
          cache, now, written, invalidated, cacheLast,
          lock, thr, ownSet,
          global_cache, constructed, gc,
          uuidSeq, imports, impLast,
          statistics, statSeq, datetime_now, statLast,
          tool_parameters, backup_schedule, schedSeq, files, bkLast,
          sqlite_con, conPc, pending, bodyRaised, reader, leaked,
          pinCon, writer,
          nameLast,
          rfStack, rfLast,
          entry_text, search_timeout_id, searchThreads, idleQueue, results_listbox, results_stack, current_results, gsEvents,
          enabled, update_timeout_id, pendingUpdates, loads, vadj_value, last_adjustment_value, message_count, visible, mvLast,
          sqlTables, initRuns, initLast>>

----------------------------------------------------------------------------
(* Inputs and bounds                                                       *)

Models == {"model1", "model2", "model3"}
Instances == {"test_instance", "test_instance2"}

\* pin_model stops being called once this many rows were ever inserted
MaxPinInserts == 4

\* update_model_pin_order stops being called after this many calls
MaxPinUpdates == 1

\* integers handed to update_model_pin_order as new_order
NewOrders == 0 .. (Cardinality(Models) + 1)

\* ids handed out are 1, 2, ...; a retId of 0 stands for no id returned

----------------------------------------------------------------------------
(* model_pin: pure table transformers, one per SQL statement               *)

\* SELECT ... FROM model_pin WHERE model_name=? AND instance_id=?
PinLookupNoCheck(tbl, m, i) == {}

PinLookup(tbl, m, i) ==
    {r \in tbl : r.model_name = m /\ r.instance_id = i}

SetMax(S) == CHOOSE x \in S : \A y \in S : y <= x

\* SELECT MAX(pin_order) FROM model_pin WHERE instance_id=?   (NULL -> 0)
MaxPinOrder(tbl, i) ==
    LET orders == {r.pin_order : r \in {q \in tbl : q.instance_id = i}}
    IN  IF orders = {} THEN 0 ELSE SetMax(orders)

\* next_order = (max_order or 0) + 1
next_order(tbl, i) ==
    LET max_order == MaxPinOrder(tbl, i)
    IN  (IF max_order = 0 THEN 0 ELSE max_order) + 1

\* pin_model: the table afterwards, the id returned, whether the pair existed
pin_model(tbl, m, i, pin_id) ==
    LET existing == PinLookup(tbl, m, i)
    IN  IF existing # {}
        THEN [tbl |-> tbl,
              ret |-> (CHOOSE r \in existing : TRUE).id,
              existing |-> TRUE]
        ELSE [tbl |-> tbl \cup {[id |-> pin_id, model_name |-> m,
                                 instance_id |-> i,
                                 pin_order |-> next_order(tbl, i)]},
              ret |-> pin_id,
              existing |-> FALSE]

\* DELETE FROM model_pin WHERE model_name=? AND instance_id=?
PinDelete(tbl, m, i) == tbl \ PinLookup(tbl, m, i)

\* UPDATE model_pin SET pin_order = pin_order - 1
\*   WHERE instance_id=? AND pin_order > ?
UnpinReorderNone(tbl, i, pin_order) == tbl

UnpinReorderAllInstances(tbl, i, pin_order) ==
    {IF r.pin_order > pin_order
     THEN [r EXCEPT !.pin_order = r.pin_order - 1] ELSE r : r \in tbl}

UnpinReorder(tbl, i, pin_order) ==
    {IF r.instance_id = i /\ r.pin_order > pin_order
     THEN [r EXCEPT !.pin_order = r.pin_order - 1] ELSE r : r \in tbl}

\* unpin_model: the table afterwards and the boolean returned
unpin_model(tbl, m, i) ==
    LET result == PinLookup(tbl, m, i)
    IN  IF result = {}
        THEN [tbl |-> tbl, ret |-> FALSE]
        ELSE LET pin_order == (CHOOSE r \in result : TRUE).pin_order
             IN  [tbl |-> UnpinReorder(PinDelete(tbl, m, i), i, pin_order),
                  ret |-> TRUE]

\* UPDATE ... SET pin_order = pin_order + 1
\*   WHERE instance_id=? AND pin_order >= new AND pin_order < old
ShiftUp(tbl, i, new_order, old_order) ==
    {IF r.instance_id = i /\ r.pin_order >= new_order /\ r.pin_order < old_order
     THEN [r EXCEPT !.pin_order = r.pin_order + 1] ELSE r : r \in tbl}

\* UPDATE ... SET pin_order = pin_order - 1
\*   WHERE instance_id=? AND pin_order > old AND pin_order <= new
ShiftDown(tbl, i, old_order, new_order) ==
    {IF r.instance_id = i /\ r.pin_order > old_order /\ r.pin_order <= new_order
     THEN [r EXCEPT !.pin_order = r.pin_order - 1] ELSE r : r \in tbl}

\* UPDATE model_pin SET pin_order=? WHERE model_name=? AND instance_id=?
SetPinOrder(tbl, m, i, new_order) ==
    {IF r.model_name = m /\ r.instance_id = i
     THEN [r EXCEPT !.pin_order = new_order] ELSE r : r \in tbl}

\* update_model_pin_order: the table afterwards and the boolean returned
update_model_pin_order(tbl, m, i, new_order) ==
    LET result == PinLookup(tbl, m, i)
    IN  IF result = {}
        THEN [tbl |-> tbl, ret |-> FALSE]
        ELSE LET old_order == (CHOOSE r \in result : TRUE).pin_order
                 shifted == IF new_order < old_order
                            THEN ShiftUp(tbl, i, new_order, old_order)
                            ELSE ShiftDown(tbl, i, old_order, new_order)
             IN  IF old_order = new_order
                 THEN [tbl |-> tbl, ret |-> TRUE]
                 ELSE [tbl |-> SetPinOrder(shifted, m, i, new_order),
                       ret |-> TRUE]

----------------------------------------------------------------------------
(* model_pin: state machine                                                *)

PinInit ==
    /\ model_pin = {}
    /\ pinSeq = 0
    /\ pinUpdates = 0
    /\ pinLast = [op |-> "none", model |-> "", inst |-> "", retId |-> 0,
                  retOk |-> FALSE, existing |-> FALSE, new_order |-> 0]

PinModel(m, i) ==
    /\ pinSeq < MaxPinInserts
    /\ LET res == pin_model(model_pin, m, i, pinSeq + 1)
       IN  /\ model_pin' = res.tbl
           /\ pinSeq' = IF res.existing THEN pinSeq ELSE pinSeq + 1
           /\ pinLast' = [op |-> "pin_model", model |-> m, inst |-> i,
                          retId |-> res.ret, retOk |-> FALSE,
                          existing |-> res.existing, new_order |-> 0]
    /\ UNCHANGED <<pinUpdates, dbVars, cacheVars, thrVars, gcVars, impVars, statVars, bkVars, conVars, pcVars, nmVars, rfVars, gsVars, mvVars, initVars>>

UnpinModel(m, i) ==
    LET res == unpin_model(model_pin, m, i)
    IN  /\ model_pin' = res.tbl
        /\ pinLast' = [op |-> "unpin_model", model |-> m, inst |-> i,
                       retId |-> 0, retOk |-> res.ret,
                       existing |-> FALSE, new_order |-> 0]
        /\ UNCHANGED <<pinSeq, pinUpdates, dbVars, cacheVars, thrVars, gcVars, impVars, statVars, bkVars, conVars, pcVars, nmVars, rfVars, gsVars, mvVars, initVars>>

UpdateModelPinOrder(m, i, n) ==
    LET res == update_model_pin_order(model_pin, m, i, n)
    IN  /\ pinUpdates < MaxPinUpdates
        /\ pinUpdates' = pinUpdates + 1
        /\ model_pin' = res.tbl
        /\ pinLast' = [op |-> "update_model_pin_order", model |-> m, inst |-> i,
                       retId |-> 0, retOk |-> res.ret,
                       existing |-> FALSE, new_order |-> n]
        /\ UNCHANGED <<pinSeq, dbVars, cacheVars, thrVars, gcVars, impVars, statVars, bkVars, conVars, pcVars, nmVars, rfVars, gsVars, mvVars, initVars>>

----------------------------------------------------------------------------
(* model_pin: properties                                                   *)

PinsOf(tbl, i) == {r \in tbl : r.instance_id = i}

Contiguous(tbl, i) ==
    LET rows == PinsOf(tbl, i)
        orders == {r.pin_order : r \in rows}
    IN  /\ orders = 1 .. Cardinality(rows)
        /\ \A r, q \in rows : r.pin_order = q.pin_order => r = q

\* C1: after any sequence of pin_model and unpin_model calls from an empty
\* table, the pin_order values of each instance are pairwise distinct and
\* are exactly 1..N, N the number of pins of the instance.
C1_PinOrderContiguous == \A i \in Instances : Contiguous(model_pin, i)

\* an unpin of a pin that was not the last one left at least two pins behind
C1_Witness ==
    /\ pinLast.op = "unpin_model"
    /\ pinLast.retOk
    /\ Cardinality(PinsOf(model_pin, pinLast.inst)) >= 2
    /\ \E r \in PinsOf(model_pin, pinLast.inst) :
          r.id > 1 /\ r.pin_order = 1

IsPinned(tbl, m, i) == \E r \in tbl : r.model_name = m /\ r.instance_id = i

\* model a is ordered before model b among the pins of instance i
PinnedBefore(tbl, a, b, i) ==
    \E ra, rb \in PinsOf(tbl, i) :
        /\ ra.model_name = a
        /\ rb.model_name = b
        /\ ra.pin_order < rb.pin_order

\* C2: unpin_model preserves the relative order of the remaining pins of the
\* instance (a is before b afterwards iff it was before), and leaves the pins
\* of every other instance unchanged.
C2_UnpinPreservesOrder ==
    [][pinLast'.op = "unpin_model" =>
        /\ \A a, b \in Models :
              (IsPinned(model_pin', a, pinLast'.inst)
                  /\ IsPinned(model_pin', b, pinLast'.inst)) =>
              (PinnedBefore(model_pin', a, b, pinLast'.inst)
                  <=> PinnedBefore(model_pin, a, b, pinLast'.inst))
        /\ \A j \in Instances \ {pinLast'.inst} :
              PinsOf(model_pin', j) = PinsOf(model_pin, j)]_vars

\* an unpin that renumbered two remaining pins while another instance has a
\* pin whose pin_order is larger than the removed one
C2_Witness ==
    /\ pinLast.op = "unpin_model"
    /\ pinLast.retOk
    /\ \E r \in PinsOf(model_pin, pinLast.inst) : r.id > 2 /\ r.pin_order = 2
    /\ \E j \in Instances \ {pinLast.inst} :
          \E q \in PinsOf(model_pin, j) : q.pin_order >= 1

\* C3: update_model_pin_order on a pinned model returns True and leaves the
\* instance's pin_order values unique and contiguous 1..N, for every integer
\* new_order.
C3_UpdateKeepsContiguous ==
    (pinLast.op = "update_model_pin_order"
        /\ IsPinned(model_pin, pinLast.model, pinLast.inst)) =>
    (pinLast.retOk /\ Contiguous(model_pin, pinLast.inst))

\* C4: pin_model on a pair that is already pinned returns the id of the
\* existing pin and leaves the model_pin table unchanged.
C4_PinAgainIsNoOp ==
    [][(pinLast'.op = "pin_model"
          /\ IsPinned(model_pin, pinLast'.model, pinLast'.inst)) =>
        /\ model_pin' = model_pin
        /\ \E r \in model_pin :
              /\ r.model_name = pinLast'.model
              /\ r.instance_id = pinLast'.inst
              /\ r.id = pinLast'.retId]_vars

\* pin_model found the pair pinned, in a table that holds other pins as well
C4_Witness ==
    /\ pinLast.op = "pin_model"
    /\ pinLast.existing
    /\ pinLast.retId # 0
    /\ Cardinality(model_pin) >= 2

----------------------------------------------------------------------------
(* gateway: inputs                                                         *)

NULL == "NULL"

ChatIds == {"c1", "c2"}
MessageIds == {"m1", "m2"}
FolderIds == {"f1", "f2", "f3"}
\* a name is the sequence of its characters
ChatNames == {<<"N">>}

\* insert_or_update_attachment stops inserting after this many attachments
MaxAttachments == 2

\* attachments added while folders are exercised
MaxFolderAttachments == 1

\* what attachment.get_name() can be: an id generate_uuid() handed to a row
\* of the table, or a name that is none of them (0)
AttachmentNames == 0 .. MaxAttachments

----------------------------------------------------------------------------
(* gateway: the database as a value, and one operator per operation.       *)
(* A database is a record of its four tables; every table is a set of      *)
(* rows. Columns that no modelled statement reads (message.role, model,    *)
(* date_time, content; attachment.type, name, content; chat_folder.name,   *)
(* color) are carried along by the code unchanged and are left out.        *)

Database == [chat |-> chat, message |-> message,
             attachment |-> attachment, chat_folder |-> chat_folder]

\* insert_or_update_chat: UPDATE name, folder, is_template when the id is
\* stored, otherwise INSERT (id, name, folder, 0)
insert_or_update_chat(db, c, name, folder, is_template) ==
    IF \E r \in db.chat : r.id = c
    THEN [db EXCEPT !.chat =
            {IF r.id = c
             THEN [r EXCEPT !.name = name, !.folder = folder,
                            !.is_template = is_template]
             ELSE r : r \in db.chat}]
    ELSE [db EXCEPT !.chat = db.chat \cup
            {[id |-> c, name |-> name, folder |-> folder,
              is_template |-> FALSE]}]

\* insert_or_update_message: UPDATE chat_id when the id is stored, otherwise
\* INSERT
insert_or_update_message(db, m, c) ==
    IF \E r \in db.message : r.id = m
    THEN [db EXCEPT !.message =
            {IF r.id = m THEN [r EXCEPT !.chat_id = c] ELSE r
               : r \in db.message}]
    ELSE [db EXCEPT !.message = db.message \cup {[id |-> m, chat_id |-> c]}]

\* insert_or_update_attachment: the lookup and the UPDATE use
\* attachment.get_name() as the id, the INSERT a fresh generate_uuid()
insert_or_update_attachment(db, m, get_name, new_id) ==
    IF \E r \in db.attachment : r.id = get_name
    THEN [db EXCEPT !.attachment =
            {IF r.id = get_name THEN [r EXCEPT !.message_id = m] ELSE r
               : r \in db.attachment}]
    ELSE [db EXCEPT !.attachment =
            db.attachment \cup {[id |-> new_id, message_id |-> m]}]

\* delete_message: DELETE the message, then its attachments
delete_message(db, m) ==
    [db EXCEPT !.message = {r \in db.message : r.id # m},
               !.attachment = {r \in db.attachment : r.message_id # m}]

\* DELETE FROM chat WHERE id=?
DeleteChatRow(db, c) == [db EXCEPT !.chat = {r \in db.chat : r.id # c}]

\* SELECT id FROM message WHERE chat_id=?
MessagesOfChat(db, c) == {r.id : r \in {q \in db.message : q.chat_id = c}}

\* DELETE FROM attachment WHERE message_id=?   for each message of ms
DeleteAttachmentsOf(db, ms) ==
    [db EXCEPT !.attachment = {r \in db.attachment : r.message_id \notin ms}]

\* DELETE FROM message WHERE chat_id=?
DeleteMessagesAll(db, c) == [db EXCEPT !.message = {}]

DeleteMessagesOf(db, c) ==
    [db EXCEPT !.message = {r \in db.message : r.chat_id # c}]

\* The statements of delete_chat in order, on one connection:
\*   1  DELETE FROM chat
\*   2  SELECT the chat's messages; DELETE each one's attachments
\*   3  DELETE FROM message
\* failAt = 0: no statement raises. failAt = k > 0: a statement of step k
\* raises sqlite3.Error; in step 2 the attachments of the messages in `done`
\* (some, not all, of the chat's messages) were deleted before it.  The result is what the connection has written
\* when the with-block is left.
delete_chat_written(db, c, failAt, done) ==
    LET s1 == DeleteChatRow(db, c)
        ms == MessagesOfChat(s1, c)
        s2 == DeleteAttachmentsOf(s1, ms)
        s3 == DeleteMessagesOf(s2, c)
    IN  CASE failAt = 0 -> s3
          [] failAt = 1 -> db
          [] failAt = 2 -> DeleteAttachmentsOf(s1, done)
          [] OTHER      -> s2

\* SQLiteConnection.__exit__: commit whenever a transaction is open, whether
\* or not the block raised; then close.  `before` is the database on disk,
\* `after` what the connection wrote.
Exit(before, after, raised) == after

\* delete_chat as a whole: the database on disk afterwards
delete_chat(db, c, failAt, done) ==
    Exit(db, delete_chat_written(db, c, failAt, done), failAt # 0)

----------------------------------------------------------------------------
(* gateway: folders                                                        *)

\* move_folder_to_folder: UPDATE chat_folder SET parent=? WHERE id=?
move_folder_to_folder(db, f, parent) ==
    [db EXCEPT !.chat_folder =
        {IF r.id = f THEN [r EXCEPT !.parent = parent] ELSE r
           : r \in db.chat_folder}]

\* insert_or_update_folder: nothing for the root (None); UPDATE when the id
\* is stored, otherwise INSERT
insert_or_update_folder(db, f, parent) ==
    IF f = NULL THEN db
    ELSE IF \E r \in db.chat_folder : r.id = f
    THEN move_folder_to_folder(db, f, parent)
    ELSE [db EXCEPT !.chat_folder =
            db.chat_folder \cup {[id |-> f, parent |-> parent]}]

\* DELETE FROM chat_folder WHERE id=?
DeleteFolderRow(db, f) ==
    [db EXCEPT !.chat_folder = {r \in db.chat_folder : r.id # f}]

\* SELECT id FROM chat WHERE folder=?
ChatsInFolder(db, f) == {r.id : r \in {q \in db.chat : q.folder = f}}

\* SELECT id FROM chat_folder WHERE parent=?
SubfoldersNone(db, f) == {}

Subfolders(db, f) == {r.id : r \in {q \in db.chat_folder : q.parent = f}}

\* for row in result: Instance.delete_chat(tempchat)
RECURSIVE DeleteChats(_, _)
DeleteChats(db, cs) ==
    IF cs = {} THEN db
    ELSE LET c == CHOOSE x \in cs : TRUE
         IN  DeleteChats(delete_chat(db, c, 0, {}), cs \ {c})

\* remove_folder: delete the row, delete the chats stored in the folder,
\* then remove every subfolder the same way
RECURSIVE remove_folder(_, _), RemoveFolders(_, _)
remove_folder(db, f) ==
    IF f = NULL THEN db
    ELSE LET s1 == DeleteFolderRow(db, f)
             s2 == DeleteChats(s1, ChatsInFolder(s1, f))
         IN  RemoveFolders(s2, Subfolders(s2, f))

RemoveFolders(db, fs) ==
    IF fs = {} THEN db
    ELSE LET f == CHOOSE x \in fs : TRUE
         IN  RemoveFolders(remove_folder(db, f), fs \ {f})

----------------------------------------------------------------------------
(* gateway: state machine                                                  *)

DbInit ==
    /\ chat = {}
    /\ message = {}
    /\ attachment = {}
    /\ chat_folder = {}
    /\ attSeq = 0
    /\ dbLast = [op |-> "none", id |-> NULL, status |-> "ok"]

Store(db) ==
    /\ chat' = db.chat
    /\ message' = db.message
    /\ attachment' = db.attachment
    /\ chat_folder' = db.chat_folder

InsertOrUpdateChat(c, name, folder, is_template) ==
    /\ Store(insert_or_update_chat(Database, c, name, folder, is_template))
    /\ dbLast' = [op |-> "insert_or_update_chat", id |-> c, status |-> "ok",
                  name |-> name, folder |-> folder,
                  is_template |-> is_template]
    /\ UNCHANGED <<attSeq, pinVars, cacheVars, thrVars, gcVars, impVars, statVars, bkVars, conVars, pcVars, nmVars, rfVars, gsVars, mvVars, initVars>>

InsertOrUpdateMessage(m, c) ==
    /\ Store(insert_or_update_message(Database, m, c))
    /\ dbLast' = [op |-> "insert_or_update_message", id |-> m, status |-> "ok"]
    /\ UNCHANGED <<attSeq, pinVars, cacheVars, thrVars, gcVars, impVars, statVars, bkVars, conVars, pcVars, nmVars, rfVars, gsVars, mvVars, initVars>>

InsertOrUpdateAttachment(m, get_name) ==
    LET stored == \E r \in attachment : r.id = get_name
    IN  /\ get_name <= attSeq
        /\ stored \/ attSeq < MaxAttachments
        /\ Store(insert_or_update_attachment(Database, m, get_name, attSeq + 1))
        /\ attSeq' = IF stored THEN attSeq ELSE attSeq + 1
        /\ dbLast' = [op |-> "insert_or_update_attachment", id |-> m,
                      status |-> "ok", name |-> get_name]
        /\ UNCHANGED <<pinVars, cacheVars, thrVars, gcVars, impVars, statVars, bkVars, conVars, pcVars, nmVars, rfVars, gsVars, mvVars, initVars>>

DeleteMessage(m) ==
    /\ Store(delete_message(Database, m))
    /\ dbLast' = [op |-> "delete_message", id |-> m, status |-> "ok"]
    /\ UNCHANGED <<attSeq, pinVars, cacheVars, thrVars, gcVars, impVars, statVars, bkVars, conVars, pcVars, nmVars, rfVars, gsVars, mvVars, initVars>>

\* delete_chat; a statement of it may raise
DeleteChat(c, failAt, done) ==
    /\ failAt = 2 =>
          /\ done \subseteq MessagesOfChat(Database, c)
          /\ done # MessagesOfChat(Database, c) \/ done = {}
    /\ failAt # 2 => done = {}
    /\ Store(delete_chat(Database, c, failAt, done))
    /\ dbLast' = [op |-> "delete_chat", id |-> c,
                  status |-> IF failAt = 0 THEN "ok" ELSE "error"]
    /\ UNCHANGED <<attSeq, pinVars, cacheVars, thrVars, gcVars, impVars, statVars, bkVars, conVars, pcVars, nmVars, rfVars, gsVars, mvVars, initVars>>

MoveFolderToFolder(f, parent) ==
    /\ Store(move_folder_to_folder(Database, f, parent))
    /\ dbLast' = [op |-> "move_folder_to_folder", id |-> f, status |-> "ok"]
    /\ UNCHANGED <<attSeq, pinVars, cacheVars, thrVars, gcVars, impVars, statVars, bkVars, conVars, pcVars, nmVars, rfVars, gsVars, mvVars, initVars>>

InsertOrUpdateFolder(f, parent) ==
    /\ Store(insert_or_update_folder(Database, f, parent))
    /\ dbLast' = [op |-> "insert_or_update_folder", id |-> f, status |-> "ok"]
    /\ UNCHANGED <<attSeq, pinVars, cacheVars, thrVars, gcVars, impVars, statVars, bkVars, conVars, pcVars, nmVars, rfVars, gsVars, mvVars, initVars>>

RemoveFolder(f) ==
    /\ Store(remove_folder(Database, f))
    /\ dbLast' = [op |-> "remove_folder", id |-> f, status |-> "ok"]
    /\ UNCHANGED <<attSeq, pinVars, cacheVars, thrVars, gcVars, impVars, statVars, bkVars, conVars, pcVars, nmVars, rfVars, gsVars, mvVars, initVars>>

----------------------------------------------------------------------------
(* gateway: properties                                                     *)

\* C5: after delete_chat(c) completes, the chat row c is gone, no message has
\* chat_id = c, no attachment references a message that belonged to c, and
\* the rows of other chats, their messages and attachments are unchanged.
C5_DeleteChatCascades ==
    [][(dbLast'.op = "delete_chat" /\ dbLast'.status = "ok") =>
        LET c == dbLast'.id
            belonged == {r.id : r \in {q \in message : q.chat_id = c}}
        IN  /\ ~ \E r \in chat' : r.id = c
            /\ ~ \E r \in message' : r.chat_id = c
            /\ ~ \E a \in attachment' : a.message_id \in belonged
            /\ chat' \subseteq chat
            /\ message' \subseteq message
            /\ attachment' \subseteq attachment
            /\ \A r \in chat : r.id # c => r \in chat'
            /\ \A r \in message : r.chat_id # c => r \in message'
            /\ \A a \in attachment :
                  a.message_id \notin belonged => a \in attachment'
            /\ chat_folder' = chat_folder]_vars

\* delete_chat completed and removed an attachment, while another chat still
\* has its message and that message's attachment
C5_Witness ==
    /\ dbLast.op = "delete_chat"
    /\ dbLast.status = "ok"
    /\ attSeq = 2
    /\ Cardinality(attachment) = 1
    /\ \E r \in chat, m \in message, a \in attachment :
          /\ r.id # dbLast.id
          /\ m.chat_id = r.id
          /\ a.message_id = m.id

\* C6: the cascading delete and the import are atomic: when a step of the
\* operation fails with an error, none of the changes of its earlier steps
\* is visible in the database afterwards.
C6_FailedOperationChangesNothing ==
    [][(dbLast'.op \in {"delete_chat", "import_chat"}
          /\ dbLast'.status = "error") =>
        UNCHANGED <<chat, message, attachment, chat_folder>>]_vars

\* the set X closed under R, where R(x) is the set of successors of x
RECURSIVE Closure(_, _, _)
Closure(R(_), X, n) ==
    IF n = 0 THEN X
    ELSE Closure(R, X \cup UNION {R(x) : x \in X}, n - 1)

\* the folders below f: its subfolders, their subfolders, ...
Descendants(tbl, f) ==
    LET Children(x) == {r.id : r \in {q \in tbl : q.parent = x}}
    IN  Closure(Children, Children(f), Cardinality(tbl))

\* the folders above f: its parent, the parent's parent, ...
Ancestors(tbl, f) ==
    LET Parents(x) == {r.parent : r \in {q \in tbl : q.id = x}} \ {NULL}
    IN  Closure(Parents, Parents(f), Cardinality(tbl))

\* C7: after remove_folder(f) returns, folder f, every folder that was a
\* descendant of f, every chat stored in one of those folders and the
\* messages and attachments of those chats no longer exist; folders and
\* chats outside f's subtree are unchanged.
C7_RemoveFolderRemovesSubtree ==
    [][(dbLast'.op = "remove_folder" /\ dbLast'.id # NULL) =>
        LET f == dbLast'.id
            subtree == {f} \cup Descendants(chat_folder, f)
            chats == {r.id : r \in {q \in chat : q.folder \in subtree}}
            msgs == {r.id : r \in {q \in message : q.chat_id \in chats}}
        IN  /\ chat_folder' = {r \in chat_folder : r.id \notin subtree}
            /\ chat' = {r \in chat : r.folder \notin subtree}
            /\ message' = {r \in message : r.chat_id \notin chats}
            /\ attachment' = {r \in attachment : r.message_id \notin msgs}]_vars

\* remove_folder returned, the message and the attachment that were stored
\* below a folder are gone, and a folder and a chat outside remain
C7_Witness ==
    /\ dbLast.op = "remove_folder"
    /\ dbLast.id # NULL
    /\ attSeq = 1
    /\ attachment = {}
    /\ message = {}
    /\ ~ \E r \in chat : r.id = "c1"
    /\ \E r \in chat : r.id = "c2" /\ r.folder # NULL
    /\ \E r, q \in chat_folder : q.parent = r.id

\* C8: after any sequence of insert_or_update_folder, move_folder_to_folder
\* and remove_folder calls the parent relation is a tree: no folder is its
\* own ancestor.
C8_FolderTree ==
    \A r \in chat_folder : r.id \notin Ancestors(chat_folder, r.id)

----------------------------------------------------------------------------
(* gateway: import_chat                                                    *)

\* import_chat stops being called after this many calls
MaxImports == 1

\* name in compare_list
InList(name, compare_list) ==
    \E j \in 1 .. Len(compare_list) : compare_list[j] = name

\* "." in name
HasDot(name) == \E j \in 1 .. Len(name) : name[j] = "."

\* name.split('.'): the position of the last dot
LastDot(name) == SetMax({j \in 1 .. Len(name) : name[j] = "."})

\* f"{'.'.join(name.split('.')[:-1])} {i}.{name.split('.')[-1]}" for a name
\* with a dot, f"{name} {i}" otherwise
NumberedName(name, i) ==
    IF HasDot(name)
    THEN SubSeq(name, 1, LastDot(name) - 1) \o <<" ", ToString(i), ".">>
            \o SubSeq(name, LastDot(name) + 1, Len(name))
    ELSE name \o <<" ", ToString(i)>>

\* for i in range(...): the numbers tried
NumbersFromTwo(compare_list) == 2 .. Len(compare_list) + 1

NumbersButLast(compare_list) == 1 .. Len(compare_list) - 1

Numbers(compare_list) == 1 .. Len(compare_list)

\* generate_numbered_name: the first numbered name that is not in the list,
\* when the name is in the list
generate_numbered_name(name, compare_list) ==
    IF InList(name, compare_list)
    THEN LET free == {i \in Numbers(compare_list) :
                         ~ InList(NumberedName(name, i), compare_list)}
         IN  IF free = {} THEN name
             ELSE NumberedName(name, CHOOSE i \in free :
                                        \A j \in free : i <= j)
    ELSE name

\* generate_uuid() for a chat or a message: the n-th id handed out
Uuid(n) == "u" \o ToString(n)

\* "Check repeated chat.name": every import chat whose name is the name of a
\* live chat is renamed
RenameRepeatedNames(db, imp, chat_names) ==
    [imp EXCEPT !.chat =
        {IF \E d \in db.chat : d.name = r.name
         THEN [r EXCEPT !.name = generate_numbered_name(r.name, chat_names)]
         ELSE r : r \in imp.chat}]

\* "Check repeated chat.id": one repeated chat is given new_id, and so is the
\* chat_id of its messages
RenameChat(imp, old, new_id) ==
    [imp EXCEPT
        !.chat = {IF r.id = old THEN [r EXCEPT !.id = new_id] ELSE r
                    : r \in imp.chat},
        !.message = {IF r.chat_id = old THEN [r EXCEPT !.chat_id = new_id]
                     ELSE r : r \in imp.message}]

\* "Check repeated message.id": one repeated message is given new_id, and so
\* is the message_id of its attachments
RenameMessageOnly(imp, old, new_id) ==
    [imp EXCEPT
        !.message = {IF r.id = old THEN [r EXCEPT !.id = new_id] ELSE r
                       : r \in imp.message}]

RenameMessage(imp, old, new_id) ==
    [imp EXCEPT
        !.attachment = {IF r.message_id = old
                        THEN [r EXCEPT !.message_id = new_id] ELSE r
                          : r \in imp.attachment},
        !.message = {IF r.id = old THEN [r EXCEPT !.id = new_id] ELSE r
                       : r \in imp.message}]

\* "Check repeated attachment.id": one repeated attachment is given new_id
RenameAttachment(imp, old, new_id) ==
    [imp EXCEPT
        !.attachment = {IF r.id = old THEN [r EXCEPT !.id = new_id] ELSE r
                          : r \in imp.attachment}]

\* the ids of a table of the import database that are ids of the live table
Repeated(impTable, dbTable) ==
    {r.id : r \in {q \in impTable : \E d \in dbTable : d.id = q.id}}

\* the three loops over the repeated rows; every row takes the next fresh id
RECURSIVE RenameChats(_, _, _), RenameMessages(_, _, _),
          RenameAttachments(_, _, _)
RenameChats(imp, olds, n) ==
    IF olds = {} THEN imp
    ELSE LET old == CHOOSE x \in olds : TRUE
         IN  RenameChats(RenameChat(imp, old, Uuid(n + 1)),
                         olds \ {old}, n + 1)

RenameMessages(imp, olds, n) ==
    IF olds = {} THEN imp
    ELSE LET old == CHOOSE x \in olds : TRUE
         IN  RenameMessages(RenameMessage(imp, old, Uuid(n + 1)),
                            olds \ {old}, n + 1)

RenameAttachments(imp, olds, n) ==
    IF olds = {} THEN imp
    ELSE LET old == CHOOSE x \in olds : TRUE
         IN  RenameAttachments(RenameAttachment(imp, old, n + 1),
                               olds \ {old}, n + 1)

\* the import database after the four passes
import_resolved(db, imp, chat_names, uuids, attIds) ==
    LET s1 == RenameRepeatedNames(db, imp, chat_names)
        cs == Repeated(s1.chat, db.chat)
        s2 == RenameChats(s1, cs, uuids)
        ms == Repeated(s2.message, db.message)
        s3 == RenameMessages(s2, ms, uuids + Cardinality(cs))
    IN  RenameAttachments(s3, Repeated(s3.attachment, db.attachment), attIds)

\* "Import": INSERT INTO chat (id, name, folder) for every import chat
InsertChats(db, imp, folder_id) ==
    [db EXCEPT !.chat = db.chat \cup
        {[id |-> r.id, name |-> r.name, folder |-> folder_id,
          is_template |-> FALSE] : r \in imp.chat}]

\* INSERT INTO message SELECT * FROM import.message
InsertMessages(db, imp) == [db EXCEPT !.message = db.message \cup imp.message]

\* INSERT INTO attachment SELECT * FROM import.attachment
InsertAttachments(db, imp) ==
    [db EXCEPT !.attachment = db.attachment \cup imp.attachment]

\* The statements of import_chat on one connection.  failAt = 0: no statement
\* raises; 1: the INSERT into message raises (the chats are inserted);
\* 2: the INSERT into attachment raises.  The result is what the connection
\* has written when the with-block is left.
import_chat_written(db, resolved, folder_id, failAt) ==
    LET s1 == InsertChats(db, resolved, folder_id)
        s2 == InsertMessages(s1, resolved)
        s3 == InsertAttachments(s2, resolved)
    IN  CASE failAt = 0 -> s3
          [] failAt = 1 -> s1
          [] OTHER      -> s2

\* import_chat as a whole: the database on disk afterwards
import_chat(db, resolved, folder_id, failAt) ==
    Exit(db, import_chat_written(db, resolved, folder_id, failAt), failAt # 0)

\* the export files import_chat is given: chats with their messages and the
\* attachments of those messages.  An id of the export is an id this
\* database uses or has handed out, or an id foreign to it ("c3", "m3", -1).
ImportChatIds == {"c1", "c3"}
ImportMessageIds == {"m1", "m3"}
ImportAttachmentIds == {1, -1}

ImportDatabases ==
    {imp \in [chat : SUBSET [id : ImportChatIds, name : ChatNames],
              message : SUBSET [id : ImportMessageIds,
                                chat_id : ImportChatIds],
              attachment : SUBSET [id : ImportAttachmentIds,
                                   message_id : ImportMessageIds]] :
        /\ imp.chat # {}
        /\ \A r, q \in imp.chat : r.id = q.id => r = q
        /\ \A r, q \in imp.message : r.id = q.id => r = q
        /\ \A r, q \in imp.attachment : r.id = q.id => r = q
        /\ \A m \in imp.message : \E r \in imp.chat : r.id = m.chat_id
        /\ \A a \in imp.attachment :
              \E m \in imp.message : m.id = a.message_id}

\* the names of the chats a chat list page shows, as the caller collects them
ChatNameLists ==
    {<< >>, <<<<"N">>>>, <<<<"N">>, NumberedName(<<"N">>, 1)>>}

ImpInit ==
    /\ uuidSeq = 0
    /\ imports = 0
    /\ impLast = [src |-> [chat |-> {}, message |-> {}, attachment |-> {}],
                  resolved |-> [chat |-> {}, message |-> {}, attachment |-> {}],
                  chat_names |-> << >>, folder_id |-> NULL]

ImportChat(imp, chat_names, folder_id, failAt) ==
    LET resolved == import_resolved(Database, imp, chat_names, uuidSeq, attSeq)
    IN  /\ imports < MaxImports
        /\ \A a \in imp.attachment : a.id <= attSeq
        /\ imports' = imports + 1
        /\ Store(import_chat(Database, resolved, folder_id, failAt))
        /\ uuidSeq' = uuidSeq + Cardinality(Repeated(imp.chat, chat))
                              + Cardinality(Repeated(imp.message, message))
        /\ attSeq' = attSeq + Cardinality(Repeated(imp.attachment, attachment))
        /\ dbLast' = [op |-> "import_chat", id |-> NULL,
                      status |-> IF failAt = 0 THEN "ok" ELSE "error"]
        /\ impLast' = [src |-> imp, resolved |-> resolved,
                       chat_names |-> chat_names, folder_id |-> folder_id]
        /\ UNCHANGED <<pinVars, cacheVars, thrVars, gcVars, statVars, bkVars, conVars, pcVars, nmVars, rfVars, gsVars, mvVars, initVars>>

\* the import_chat call of this step returned without an error
Imported == imports' = imports + 1 /\ dbLast'.status = "ok"

\* some live chat is named name
LiveName(name) == \E d \in chat : d.name = name

Injective(f) == \A x, y \in DOMAIN f : f[x] = f[y] => x = y

\* no id is shared by two rows of the table
UniqueIds(table) == \A r, q \in table : r.id = q.id => r = q

\* C15: after import_chat, whatever subset of the imported chat, message and
\* attachment ids collided with live ids, every imported message's chat_id
\* is the final id of the imported chat it belonged to in the export, every
\* imported attachment's message_id is the final id of its message, no id is
\* shared by two rows of the same table, and no row that was live before the
\* import is modified.
C15_ImportKeepsReferences ==
    [][Imported =>
        LET src == impLast'.src
            newChat == chat' \ chat
            newMessage == message' \ message
            newAttachment == attachment' \ attachment
        IN  /\ chat \subseteq chat'
            /\ message \subseteq message'
            /\ attachment \subseteq attachment'
            /\ chat_folder' = chat_folder
            /\ UniqueIds(chat') /\ UniqueIds(message')
            /\ UniqueIds(attachment')
            /\ \E fc \in [{r.id : r \in src.chat} -> {r.id : r \in newChat}],
                  fm \in [{r.id : r \in src.message}
                             -> {r.id : r \in newMessage}],
                  fa \in [{r.id : r \in src.attachment}
                             -> {r.id : r \in newAttachment}] :
                  /\ Injective(fc) /\ Injective(fm) /\ Injective(fa)
                  /\ {r.id : r \in newChat} = {fc[r.id] : r \in src.chat}
                  /\ newMessage =
                        {[id |-> fm[m.id], chat_id |-> fc[m.chat_id]]
                           : m \in src.message}
                  /\ newAttachment =
                        {[id |-> fa[a.id], message_id |-> fm[a.message_id]]
                           : a \in src.attachment}]_vars

\* an import whose chat id, message id and attachment id all collided: the
\* three rows were stored under fresh ids that reference each other, next to
\* the live rows that have the ids of the export
C15_Witness ==
    /\ imports = 1 /\ dbLast.status = "ok"
    /\ \E r \in impLast.src.chat, m \in impLast.src.message,
          a \in impLast.src.attachment :
          /\ m.chat_id = r.id /\ a.message_id = m.id
          /\ \E d \in chat : d.id = r.id
          /\ [id |-> m.id, chat_id |-> r.id] \in message
          /\ [id |-> a.id, message_id |-> m.id] \in attachment
          /\ \E x \in chat, y \in message, z \in attachment :
                /\ x.id \notin {q.id : q \in impLast.src.chat}
                /\ y.id \notin {q.id : q \in impLast.src.message}
                /\ z.id \notin {q.id : q \in impLast.src.attachment}
                /\ y.chat_id = x.id /\ z.message_id = y.id

----------------------------------------------------------------------------
(* TTL cache: inputs and bounds                                            *)

CacheKeys == {"instance1:model1", "instance1:model2"}
ModelInfos == {"info1", "info2"}
None == "None"

\* ModelInfoCache(ttl_seconds=...)
ttl_seconds == 2

\* the clock stops advancing at this time
MaxTime == 5

\* hits counted per entry
MaxHits == 2

----------------------------------------------------------------------------
(* TTL cache: one operator per method; each body runs under self._lock     *)

\* current_time - timestamp > self._ttl_seconds
IsExpiredAtTtl(timestamp, current_time) ==
    current_time - timestamp >= ttl_seconds

IsExpired(timestamp, current_time) ==
    current_time - timestamp > ttl_seconds

\* del self._cache[key]
Without(c, key) == [k \in DOMAIN c \ {key} |-> c[k]]

\* what a hit does to the stored entry
HitRefreshes(c, key, current_time) ==
    [c EXCEPT ![key].timestamp = current_time]

Hit(c, key, current_time) == c

\* what an expired entry becomes when get finds it
ExpiredDropped(c, key) == Without(c, key)

\* get: the cache afterwards and the value returned
get(c, cache_key, current_time) ==
    IF cache_key \notin DOMAIN c
    THEN [cache |-> c, ret |-> None]
    ELSE IF IsExpired(c[cache_key].timestamp, current_time)
    THEN [cache |-> ExpiredDropped(c, cache_key), ret |-> None]
    ELSE [cache |-> Hit(c, cache_key, current_time),
          ret |-> c[cache_key].model_info]

\* set: self._cache[cache_key] = (model_info, time.time())
set(c, cache_key, model_info, current_time) ==
    [k \in DOMAIN c \cup {cache_key} |->
        IF k = cache_key
        THEN [model_info |-> model_info, timestamp |-> current_time]
        ELSE c[k]]

\* invalidate: the cache afterwards and the boolean returned
invalidateKeepsEntry(c, cache_key) ==
    [cache |-> c, ret |-> cache_key \in DOMAIN c]

invalidate(c, cache_key) ==
    IF cache_key \in DOMAIN c
    THEN [cache |-> Without(c, cache_key), ret |-> TRUE]
    ELSE [cache |-> c, ret |-> FALSE]

\* clear
clear(c) == [k \in {} |-> None]

\* cleanup_expired: the cache afterwards and the number of entries removed
cleanup_expired(c, current_time) ==
    LET expired_keys ==
            {k \in DOMAIN c : IsExpired(c[k].timestamp, current_time)}
    IN  [cache |-> [k \in DOMAIN c \ expired_keys |-> c[k]],
         ret |-> Cardinality(expired_keys)]

\* get_stats
get_stats(c, current_time) ==
    LET valid_entries ==
            Cardinality({k \in DOMAIN c :
                            current_time - c[k].timestamp <= ttl_seconds})
    IN  [total_entries |-> Cardinality(DOMAIN c),
         valid_entries |-> valid_entries,
         expired_entries |-> Cardinality(DOMAIN c) - valid_entries,
         ttl_seconds |-> ttl_seconds]

----------------------------------------------------------------------------
(* TTL cache: state machine                                                *)

NoStats == [total_entries |-> 0, valid_entries |-> 0, expired_entries |-> 0,
            ttl_seconds |-> ttl_seconds]

CacheCall(op, key, ret, ok, count, stats) ==
    [op |-> op, key |-> key, ret |-> ret, ok |-> ok, count |-> count,
     stats |-> stats, time |-> now]

CacheInit ==
    /\ cache = [k \in {} |-> None]
    /\ written = [k \in {} |-> None]
    /\ invalidated = {}
    /\ now = 0
    /\ cacheLast = [op |-> "none", key |-> None, ret |-> None, ok |-> FALSE,
                    count |-> 0, stats |-> NoStats, time |-> 0]

\* the clock advances
Tick ==
    /\ now < MaxTime
    /\ now' = now + 1
    /\ UNCHANGED <<cache, written, invalidated, cacheLast, pinVars, dbVars, thrVars, gcVars, impVars, statVars, bkVars, conVars, pcVars, nmVars, rfVars, gsVars, mvVars, initVars>>

Get(k) ==
    LET res == get(cache, k, now)
    IN  /\ cache' = res.cache
        /\ cacheLast' = CacheCall("get", k, res.ret, FALSE, 0, NoStats)
        /\ written' =
              IF k \in DOMAIN written /\ res.ret # None
                    /\ written[k].hits < MaxHits
              THEN [written EXCEPT ![k].hits = written[k].hits + 1]
              ELSE written
        /\ UNCHANGED <<now, invalidated, pinVars, dbVars, thrVars, gcVars, impVars, statVars, bkVars, conVars, pcVars, nmVars, rfVars, gsVars, mvVars, initVars>>

Set(k, v) ==
    /\ cache' = set(cache, k, v, now)
    /\ written' = [j \in DOMAIN written \cup {k} |->
                      IF j = k THEN [model_info |-> v, time |-> now, hits |-> 0]
                      ELSE written[j]]
    /\ invalidated' = invalidated \ {k}
    /\ cacheLast' = CacheCall("set", k, None, FALSE, 0, NoStats)
    /\ UNCHANGED <<now, pinVars, dbVars, thrVars, gcVars, impVars, statVars, bkVars, conVars, pcVars, nmVars, rfVars, gsVars, mvVars, initVars>>

Invalidate(k) ==
    LET res == invalidate(cache, k)
    IN  /\ cache' = res.cache
        /\ written' = Without(written, k)
        /\ invalidated' = IF res.ret THEN invalidated \cup {k} ELSE invalidated
        /\ cacheLast' = CacheCall("invalidate", k, None, res.ret, 0, NoStats)
        /\ UNCHANGED <<now, pinVars, dbVars, thrVars, gcVars, impVars, statVars, bkVars, conVars, pcVars, nmVars, rfVars, gsVars, mvVars, initVars>>

Clear ==
    /\ cache' = clear(cache)
    /\ written' = [k \in {} |-> None]
    /\ cacheLast' = CacheCall("clear", None, None, FALSE, 0, NoStats)
    /\ UNCHANGED <<now, invalidated, pinVars, dbVars, thrVars, gcVars, impVars, statVars, bkVars, conVars, pcVars, nmVars, rfVars, gsVars, mvVars, initVars>>

CleanupExpired ==
    LET res == cleanup_expired(cache, now)
    IN  /\ cache' = res.cache
        /\ cacheLast' =
              CacheCall("cleanup_expired", None, None, FALSE, res.ret, NoStats)
        /\ UNCHANGED <<now, written, invalidated, pinVars, dbVars, thrVars, gcVars, impVars, statVars, bkVars, conVars, pcVars, nmVars, rfVars, gsVars, mvVars, initVars>>

GetStats ==
    /\ cacheLast' =
          CacheCall("get_stats", None, None, FALSE, 0, get_stats(cache, now))
    /\ UNCHANGED <<cache, now, written, invalidated, pinVars, dbVars, thrVars, gcVars, impVars, statVars, bkVars, conVars, pcVars, nmVars, rfVars, gsVars, mvVars, initVars>>

----------------------------------------------------------------------------
(* TTL cache: properties                                                   *)

\* C9: after set(k, v) with no later set/invalidate/clear of k, get(k)
\* returns v as long as the entry's age does not exceed the TTL; once the
\* age exceeds the TTL, get(k) returns absent and removes the entry, so
\* get_stats().total_entries no longer counts it.
C9_GetWithinTtl ==
    (cacheLast.op = "get" /\ cacheLast.key \in DOMAIN written) =>
        LET k == cacheLast.key
            age == cacheLast.time - written[k].time
        IN  IF age <= ttl_seconds
            THEN cacheLast.ret = written[k].model_info
            ELSE /\ cacheLast.ret = None
                 /\ k \notin DOMAIN cache
                 /\ get_stats(cache, now).total_entries
                       = Cardinality(DOMAIN cache \ {k})

\* a get answered absent for an entry whose age had passed the TTL, while
\* the other key is still stored
C9_Witness ==
    /\ cacheLast.op = "get"
    /\ cacheLast.key \in DOMAIN written
    /\ cacheLast.time - written[cacheLast.key].time > ttl_seconds
    /\ cacheLast.ret = None
    /\ get_stats(cache, now).total_entries = 1

\* C10: reading never extends an entry's life: a get leaves the stored value
\* and insertion time of every entry unchanged, so an entry set at time t is
\* absent for every get after t + ttl, however many gets hit it in between.
C10_GetDoesNotRefresh ==
    [][(cacheLast'.op = "get" /\ now' = now) =>
        /\ \A k \in DOMAIN cache' :
              k \in DOMAIN cache /\ cache'[k] = cache[k]
        /\ \A k \in DOMAIN cache : k # cacheLast'.key => k \in DOMAIN cache'
        /\ (cacheLast'.key \in DOMAIN written
              /\ now > written[cacheLast'.key].time + ttl_seconds)
           => cacheLast'.ret = None]_vars

\* a get found the entry expired after it had been hit twice since its set
C10_Witness ==
    /\ cacheLast.op = "get"
    /\ cacheLast.key \in DOMAIN written
    /\ written[cacheLast.key].hits = 2
    /\ cacheLast.time > written[cacheLast.key].time + ttl_seconds
    /\ cacheLast.ret = None

\* C11: invalidate(k) returns False and changes nothing when the cache holds
\* no entry for k; when it holds one it returns True and removes only that
\* entry, and every get(k) afterwards returns absent until the next set(k, _).
C11_Invalidate ==
    [][/\ (cacheLast'.op = "invalidate" /\ now' = now) =>
            LET k == cacheLast'.key
            IN  IF k \in DOMAIN cache
                THEN /\ cacheLast'.ok
                     /\ DOMAIN cache' = DOMAIN cache \ {k}
                     /\ \A j \in DOMAIN cache' : cache'[j] = cache[j]
                ELSE /\ ~ cacheLast'.ok
                     /\ cache' = cache
       /\ (cacheLast'.op = "get" /\ now' = now
             /\ cacheLast'.key \in invalidated) =>
            cacheLast'.ret = None]_vars

\* a get answered absent for a key that an invalidate had removed, while the
\* entry of the other key, set before the invalidate, is still stored
C11_Witness ==
    /\ cacheLast.op = "get"
    /\ cacheLast.key \in invalidated
    /\ cacheLast.ret = None
    /\ \E j \in DOMAIN cache :
          j # cacheLast.key /\ j \in DOMAIN written /\ j \notin invalidated

----------------------------------------------------------------------------
(* TTL cache called from several threads.  Every method body is             *)
(* `with self._lock:`; a thread waits at the with-statement until the lock  *)
(* is free, runs the body statement by statement, and releases the lock     *)
(* when it leaves the block, by return or by an exception.                  *)

Threads == {"t1", "t2"}
NoThread == "NoThread"
KeyError == "KeyError"

\* the clock stops advancing at this time while threads run
MaxThreadTime == 3

CacheOps == {"get", "set", "invalidate", "clear", "cleanup_expired",
             "get_stats"}

NoLocal == [model_info |-> None, timestamp |-> 0, current_time |-> 0,
            expired_keys |-> {}]

Idle == [pc |-> "idle", op |-> "none", key |-> None, val |-> None,
         local |-> NoLocal, ret |-> None, exc |-> None]

\* threading.Lock.acquire succeeds when no thread holds the lock
LockIgnored(l) == TRUE

CanAcquire(l) == l = NoThread

ThreadInit ==
    /\ lock = NoThread
    /\ thr = [t \in Threads |-> Idle]
    /\ ownSet = [t \in Threads |-> None]

\* a thread is between the acquire and the release of the lock
InBody(t) == thr[t].pc \in {"l1", "l2", "l3", "release"}

\* the thread calls a method and reaches its with-statement
Call(t, op, k, v) ==
    /\ thr[t].pc = "idle"
    /\ thr' = [thr EXCEPT ![t] = [Idle EXCEPT !.pc = "acquire", !.op = op,
                                              !.key = k, !.val = v]]
    /\ UNCHANGED <<lock, ownSet, pinVars, dbVars, cacheVars, gcVars, impVars, statVars, bkVars, conVars, pcVars, nmVars, rfVars, gsVars, mvVars, initVars>>

\* with self._lock:
Acquire(t) ==
    /\ thr[t].pc = "acquire"
    /\ CanAcquire(lock)
    /\ lock' = t
    /\ thr' = [thr EXCEPT ![t].pc = "l1"]
    /\ UNCHANGED <<ownSet, pinVars, dbVars, cacheVars, gcVars, impVars, statVars, bkVars, conVars, pcVars, nmVars, rfVars, gsVars, mvVars, initVars>>

\* leaving the with-block releases the lock; the method returns or raises
Release(t) ==
    /\ thr[t].pc = "release"
    /\ lock' = NoThread
    /\ thr' = [thr EXCEPT ![t] = Idle]
    /\ UNCHANGED <<ownSet, pinVars, dbVars, cacheVars, gcVars, impVars, statVars, bkVars, conVars, pcVars, nmVars, rfVars, gsVars, mvVars, initVars>>

\* get: if cache_key not in self._cache: return None
GetCheck(t) ==
    /\ thr[t].pc = "l1" /\ thr[t].op = "get"
    /\ thr' = IF thr[t].key \notin DOMAIN cache
              THEN [thr EXCEPT ![t].pc = "release", ![t].ret = None]
              ELSE [thr EXCEPT ![t].pc = "l2"]
    /\ UNCHANGED <<lock, ownSet, pinVars, dbVars, cacheVars, gcVars, impVars, statVars, bkVars, conVars, pcVars, nmVars, rfVars, gsVars, mvVars, initVars>>

\* get: model_info, timestamp = self._cache[cache_key]
\*      current_time = time.time()
GetRead(t) ==
    /\ thr[t].pc = "l2" /\ thr[t].op = "get"
    /\ thr' = IF thr[t].key \notin DOMAIN cache
              THEN [thr EXCEPT ![t].pc = "release", ![t].exc = KeyError]
              ELSE [thr EXCEPT ![t].pc = "l3",
                       ![t].local = [NoLocal EXCEPT
                          !.model_info = cache[thr[t].key].model_info,
                          !.timestamp = cache[thr[t].key].timestamp,
                          !.current_time = now]]
    /\ UNCHANGED <<lock, ownSet, pinVars, dbVars, cacheVars, gcVars, impVars, statVars, bkVars, conVars, pcVars, nmVars, rfVars, gsVars, mvVars, initVars>>

\* get: if current_time - timestamp > self._ttl_seconds:
\*          del self._cache[cache_key]; return None
\*      return model_info
GetReturn(t) ==
    /\ thr[t].pc = "l3" /\ thr[t].op = "get"
    /\ LET l == thr[t].local
           k == thr[t].key
       IN  IF IsExpired(l.timestamp, l.current_time)
           THEN IF k \in DOMAIN cache
                THEN /\ cache' = ExpiredDropped(cache, k)
                     /\ thr' = [thr EXCEPT ![t].pc = "release",
                                           ![t].ret = None]
                ELSE /\ cache' = cache
                     /\ thr' = [thr EXCEPT ![t].pc = "release",
                                           ![t].exc = KeyError]
           ELSE /\ cache' = Hit(cache, k, l.current_time)
                /\ thr' = [thr EXCEPT ![t].pc = "release",
                                      ![t].ret = l.model_info]
    /\ UNCHANGED <<lock, ownSet, now, written, invalidated, cacheLast,
                   pinVars, dbVars, gcVars, impVars, statVars, bkVars, conVars, pcVars, nmVars, rfVars, gsVars, mvVars, initVars>>

\* set: self._cache[cache_key] = (model_info, time.time())
ThreadSet(t) ==
    /\ thr[t].pc = "l1" /\ thr[t].op = "set"
    /\ cache' = set(cache, thr[t].key, thr[t].val, now)
    /\ thr' = [thr EXCEPT ![t].pc = "release"]
    /\ ownSet' = [ownSet EXCEPT ![t] = thr[t].key]
    /\ UNCHANGED <<lock, now, written, invalidated, cacheLast,
                   pinVars, dbVars, gcVars, impVars, statVars, bkVars, conVars, pcVars, nmVars, rfVars, gsVars, mvVars, initVars>>

\* invalidate: if cache_key in self._cache:
InvalidateCheck(t) ==
    /\ thr[t].pc = "l1" /\ thr[t].op = "invalidate"
    /\ thr' = IF thr[t].key \in DOMAIN cache
              THEN [thr EXCEPT ![t].pc = "l2"]
              ELSE [thr EXCEPT ![t].pc = "release", ![t].ret = FALSE]
    /\ ownSet' = [u \in Threads |-> None]
    /\ UNCHANGED <<lock, pinVars, dbVars, cacheVars, gcVars, impVars, statVars, bkVars, conVars, pcVars, nmVars, rfVars, gsVars, mvVars, initVars>>

\* invalidate: del self._cache[cache_key]; return True
InvalidateDelete(t) ==
    /\ thr[t].pc = "l2" /\ thr[t].op = "invalidate"
    /\ IF thr[t].key \in DOMAIN cache
       THEN /\ cache' = Without(cache, thr[t].key)
            /\ thr' = [thr EXCEPT ![t].pc = "release", ![t].ret = TRUE]
       ELSE /\ cache' = cache
            /\ thr' = [thr EXCEPT ![t].pc = "release", ![t].exc = KeyError]
    /\ ownSet' = [u \in Threads |-> None]
    /\ UNCHANGED <<lock, now, written, invalidated, cacheLast,
                   pinVars, dbVars, gcVars, impVars, statVars, bkVars, conVars, pcVars, nmVars, rfVars, gsVars, mvVars, initVars>>

\* clear: self._cache.clear()
ThreadClear(t) ==
    /\ thr[t].pc = "l1" /\ thr[t].op = "clear"
    /\ cache' = clear(cache)
    /\ thr' = [thr EXCEPT ![t].pc = "release"]
    /\ ownSet' = [u \in Threads |-> None]
    /\ UNCHANGED <<lock, now, written, invalidated, cacheLast,
                   pinVars, dbVars, gcVars, impVars, statVars, bkVars, conVars, pcVars, nmVars, rfVars, gsVars, mvVars, initVars>>

\* cleanup_expired: current_time = time.time(); expired_keys = [...]
CleanupCollect(t) ==
    /\ thr[t].pc = "l1" /\ thr[t].op = "cleanup_expired"
    /\ thr' = [thr EXCEPT ![t].pc = "l2",
                  ![t].local = [NoLocal EXCEPT
                     !.current_time = now,
                     !.expired_keys =
                        {k \in DOMAIN cache :
                            IsExpired(cache[k].timestamp, now)}]]
    /\ ownSet' = [u \in Threads |-> None]
    /\ UNCHANGED <<lock, pinVars, dbVars, cacheVars, gcVars, impVars, statVars, bkVars, conVars, pcVars, nmVars, rfVars, gsVars, mvVars, initVars>>

\* cleanup_expired: for key in expired_keys: del self._cache[key]
\*                  return len(expired_keys)
CleanupDelete(t) ==
    /\ thr[t].pc = "l2" /\ thr[t].op = "cleanup_expired"
    /\ LET keys == thr[t].local.expired_keys
       IN  IF keys \subseteq DOMAIN cache
           THEN /\ cache' = [k \in DOMAIN cache \ keys |-> cache[k]]
                /\ thr' = [thr EXCEPT ![t].pc = "release",
                                      ![t].ret = Cardinality(keys)]
           ELSE \* a key is gone: the del raises; the keys deleted before
                \* it are any of those still stored
                \E gone \in SUBSET (keys \cap DOMAIN cache) :
                   /\ cache' = [k \in DOMAIN cache \ gone |-> cache[k]]
                   /\ thr' = [thr EXCEPT ![t].pc = "release",
                                         ![t].exc = KeyError]
    /\ ownSet' = [u \in Threads |-> None]
    /\ UNCHANGED <<lock, now, written, invalidated, cacheLast,
                   pinVars, dbVars, gcVars, impVars, statVars, bkVars, conVars, pcVars, nmVars, rfVars, gsVars, mvVars, initVars>>

\* get_stats: counts the entries
ThreadGetStats(t) ==
    /\ thr[t].pc = "l1" /\ thr[t].op = "get_stats"
    /\ thr' = [thr EXCEPT ![t].pc = "release",
                          ![t].ret = get_stats(cache, now)]
    /\ UNCHANGED <<lock, ownSet, pinVars, dbVars, cacheVars, gcVars, impVars, statVars, bkVars, conVars, pcVars, nmVars, rfVars, gsVars, mvVars, initVars>>

\* the clock advances while threads run; entries may now expire
ThreadTick ==
    /\ now < MaxThreadTime
    /\ now' = now + 1
    /\ ownSet' = [u \in Threads |-> None]
    /\ UNCHANGED <<lock, thr, cache, written, invalidated, cacheLast,
                   pinVars, dbVars, gcVars, impVars, statVars, bkVars, conVars, pcVars, nmVars, rfVars, gsVars, mvVars, initVars>>

\* C12: the cache operations are mutually exclusive: at most one thread is
\* inside the body of an operation, no operation fails on an entry another
\* thread removed under it, and a get that follows the same thread's set on
\* the key, with only sets and gets by other threads and no expiry in
\* between, never returns absent.
C12_MutualExclusion ==
    /\ \A t, u \in Threads : (InBody(t) /\ InBody(u)) => t = u
    /\ \A t \in Threads : InBody(t) => lock = t
    /\ \A t \in Threads : thr[t].exc # KeyError
    /\ \A t \in Threads :
          (thr[t].pc = "release" /\ thr[t].op = "get"
              /\ ownSet[t] = thr[t].key) => thr[t].ret \in ModelInfos

\* a thread's get returned the value while the other thread, which set the
\* same key after it, waits for the lock
C12_Witness ==
    \E t, u \in Threads :
        /\ t # u
        /\ thr[t].pc = "release" /\ thr[t].op = "get"
        /\ ownSet[t] = thr[t].key /\ ownSet[u] = thr[t].key
        /\ thr[t].ret \in ModelInfos
        /\ thr[t].ret # thr[t].val
        /\ thr[u].pc = "acquire"

----------------------------------------------------------------------------
(* get_cache(): the lazily constructed global instance.  Instances are      *)
(* numbered 1, 2, ... in the order of construction; 0 stands for None.      *)
(* The function takes no lock, so threads interleave between its statements.*)

CacheThreads == {"t1", "t2", "t3"}

GcIdle == [pc |-> "idle", new |-> 0, ret |-> 0]

GcInit ==
    /\ global_cache = 0
    /\ constructed = 0
    /\ gc = [t \in CacheThreads |-> GcIdle]

\* a thread calls get_cache()
GetCacheCall(t) ==
    /\ gc[t].pc = "idle"
    /\ gc' = [gc EXCEPT ![t].pc = "test"]
    /\ UNCHANGED <<global_cache, constructed,
                   pinVars, dbVars, cacheVars, thrVars, impVars, statVars, bkVars, conVars, pcVars, nmVars, rfVars, gsVars, mvVars, initVars>>

\* _global_cache is None
TestIsNone(g) == g = 0

\* if _global_cache is None:
GetCacheTest(t) ==
    /\ gc[t].pc = "test"
    /\ gc' = [gc EXCEPT ![t].pc = IF TestIsNone(global_cache)
                                  THEN "construct" ELSE "return"]
    /\ UNCHANGED <<global_cache, constructed,
                   pinVars, dbVars, cacheVars, thrVars, impVars, statVars, bkVars, conVars, pcVars, nmVars, rfVars, gsVars, mvVars, initVars>>

\* ModelInfoCache()
GetCacheConstruct(t) ==
    /\ gc[t].pc = "construct"
    /\ constructed' = constructed + 1
    /\ gc' = [gc EXCEPT ![t].pc = "store", ![t].new = constructed + 1]
    /\ UNCHANGED <<global_cache, pinVars, dbVars, cacheVars, thrVars, impVars, statVars, bkVars, conVars, pcVars, nmVars, rfVars, gsVars, mvVars, initVars>>

\* _global_cache = <the new instance>
GetCacheStore(t) ==
    /\ gc[t].pc = "store"
    /\ global_cache' = gc[t].new
    /\ gc' = [gc EXCEPT ![t].pc = "return"]
    /\ UNCHANGED <<constructed, pinVars, dbVars, cacheVars, thrVars, impVars, statVars, bkVars, conVars, pcVars, nmVars, rfVars, gsVars, mvVars, initVars>>

\* return _global_cache
GetCacheReturn(t) ==
    /\ gc[t].pc = "return"
    /\ gc' = [gc EXCEPT ![t] = [GcIdle EXCEPT !.ret = global_cache]]
    /\ UNCHANGED <<global_cache, constructed,
                   pinVars, dbVars, cacheVars, thrVars, impVars, statVars, bkVars, conVars, pcVars, nmVars, rfVars, gsVars, mvVars, initVars>>

\* C13: get_cache() returns the same ModelInfoCache instance on every call in
\* a process: the instance is constructed at most once, also when the first
\* calls are made concurrently from several threads.
C13_Singleton ==
    /\ constructed <= 1
    /\ \A t, u \in CacheThreads :
          (gc[t].ret # 0 /\ gc[u].ret # 0) => gc[t].ret = gc[u].ret

----------------------------------------------------------------------------
(* StatisticsService.  datetime_now counts ticks of 1/TicksPerSecond       *)
(* seconds; a stored timestamp is a number of whole seconds.               *)

\* record_* stops being called after this many calls
MaxStatEvents == 2

\* the resolution of datetime.now(), and the tick at which it stops advancing
TicksPerSecond == 2
MaxStatTime == 2

\* None, and SQL NULL, where the other values are integers
NullInt == -1

StatModels == {"m1", "m2"}
TokenCounts == {1, 2}
ResponseTimes == {5}
\* the event_id arguments: NULL is the default None
EventIds == {NULL, "e1"}
\* the date_from and date_to arguments: NullInt is the default None
Dates == {NullInt} \cup (0 .. MaxStatTime)
DatesTo == {NullInt, 1}

\* generate_uuid(): the n-th id handed out
StatUuid(n) == "s" \o ToString(n)

\* strftime("%Y/%m/%d %H:%M:%S"): the fraction of a second is dropped; two
\* strings of this format compare as the whole seconds they denote
Format(t) == t \div TicksPerSecond

\* INSERT INTO statistics: sqlite3.IntegrityError for a stored id is caught
\* and the table is left as it was
InsertEventReplaces(rows, row) == {r \in rows : r.id # row.id} \cup {row}

InsertEvent(rows, row) ==
    IF \E r \in rows : r.id = row.id THEN rows ELSE rows \cup {row}

\* if event_id is None: event_id = generate_uuid()
EventId(event_id, fresh) == IF event_id = NULL THEN fresh ELSE event_id

record_token_usage(rows, model, tokens_used, event_id, fresh, time) ==
    LET id == EventId(event_id, fresh)
    IN  [rows |-> InsertEvent(rows,
                    [id |-> id, event_type |-> "token_usage",
                     model |-> model, tokens_used |-> tokens_used,
                     response_time_ms |-> NullInt, timestamp |-> Format(time)]),
         ret |-> id]

record_response_time(rows, model, response_time_ms, event_id, fresh, time) ==
    LET id == EventId(event_id, fresh)
    IN  [rows |-> InsertEvent(rows,
                    [id |-> id, event_type |-> "response_time",
                     model |-> model, tokens_used |-> NullInt,
                     response_time_ms |-> response_time_ms,
                     timestamp |-> Format(time)]),
         ret |-> id]

record_model_usage(rows, model, event_id, fresh, time) ==
    LET id == EventId(event_id, fresh)
    IN  [rows |-> InsertEvent(rows,
                    [id |-> id, event_type |-> "model_usage",
                     model |-> model, tokens_used |-> NullInt,
                     response_time_ms |-> NullInt, timestamp |-> Format(time)]),
         ret |-> id]

\* SUM(tokens_used)
RECURSIVE SumTokens(_)
SumTokens(rows) ==
    IF rows = {} THEN 0
    ELSE LET r == CHOOSE x \in rows : TRUE
         IN  r.tokens_used + SumTokens(rows \ {r})

\* AND timestamp >= ?
AfterStrictly(timestamp, date_from) ==
    date_from = NullInt \/ timestamp > Format(date_from)

NotBefore(timestamp, date_from) ==
    date_from = NullInt \/ timestamp >= Format(date_from)

\* AND timestamp <= ?
NotAfter(timestamp, date_to) ==
    date_to = NullInt \/ timestamp <= Format(date_to)

\* the rows of the WHERE clause
Selected(rows, date_from, date_to) ==
    {r \in rows : /\ r.event_type = "token_usage"
                  /\ r.tokens_used # NullInt
                  /\ NotBefore(r.timestamp, date_from)
                  /\ NotAfter(r.timestamp, date_to)}

\* model = row[1] or "unknown"
ModelKey(model) == IF model = NULL \/ model = "" THEN "unknown" ELSE model

\* by_model[model] = tokens: of the groups with one key the last one in the
\* order of GROUP BY (NULL, then text in byte order) is the one kept
LastGroup(key, groups) ==
    IF key \in groups THEN key
    ELSE IF "" \in groups THEN "" ELSE NULL

get_token_usage(rows, date_from, date_to) ==
    LET selected == Selected(rows, date_from, date_to)
        groups == {r.model : r \in selected}
    IN  [total_tokens |-> SumTokens(selected),
         by_model |->
            [k \in {ModelKey(g) : g \in groups} |->
                SumTokens({r \in selected : r.model = LastGroup(k, groups)})]]

\* WHERE timestamp < ?
NotAfterCutoff(timestamp, date_before) == timestamp <= Format(date_before)

BeforeCutoff(timestamp, date_before) == timestamp < Format(date_before)

\* clear_statistics: the rows left, and cursor.rowcount
clear_statistics(rows, date_before) ==
    LET deleted == IF date_before = NullInt THEN rows
                   ELSE {r \in rows : BeforeCutoff(r.timestamp, date_before)}
    IN  [rows |-> rows \ deleted, ret |-> Cardinality(deleted)]

NoUsage == [total_tokens |-> 0, by_model |-> << >>]

StatCall == [op |-> "none", event_id |-> NULL, ret |-> NULL,
             date_from |-> NullInt, date_to |-> NullInt, usage |-> NoUsage,
             date_before |-> NullInt, deleted_count |-> 0, call |-> 0]

StatInit ==
    /\ statistics = {}
    /\ statSeq = 0
    /\ datetime_now = 0
    /\ statLast = StatCall

\* a record_* call that left rows and returned ret
Recorded(op, event_id, res) ==
    /\ statSeq < MaxStatEvents
    /\ statSeq' = statSeq + 1
    /\ statistics' = res.rows
    /\ statLast' = [StatCall EXCEPT !.op = op, !.event_id = event_id,
                                    !.ret = res.ret,
                                    !.call = 1 - statLast.call]
    /\ UNCHANGED <<datetime_now, pinVars, dbVars, cacheVars, thrVars, gcVars,
                   impVars, bkVars, conVars, pcVars, nmVars, rfVars, gsVars, mvVars, initVars>>

RecordTokenUsage(model, tokens_used, event_id) ==
    Recorded("record_token_usage", event_id,
             record_token_usage(statistics, model, tokens_used, event_id,
                                StatUuid(statSeq + 1), datetime_now))

RecordResponseTime(model, response_time_ms, event_id) ==
    Recorded("record_response_time", event_id,
             record_response_time(statistics, model, response_time_ms,
                                  event_id, StatUuid(statSeq + 1),
                                  datetime_now))

RecordModelUsage(model, event_id) ==
    Recorded("record_model_usage", event_id,
             record_model_usage(statistics, model, event_id,
                                StatUuid(statSeq + 1), datetime_now))

GetTokenUsage(date_from, date_to) ==
    /\ statLast' = [StatCall EXCEPT !.op = "get_token_usage",
                                    !.date_from = date_from,
                                    !.date_to = date_to,
                                    !.usage = get_token_usage(statistics,
                                                 date_from, date_to),
                                    !.call = 1 - statLast.call]
    /\ UNCHANGED <<statistics, statSeq, datetime_now, pinVars, dbVars,
                   cacheVars, thrVars, gcVars, impVars, bkVars, conVars, pcVars, nmVars, rfVars, gsVars, mvVars, initVars>>

ClearStatistics(date_before) ==
    LET res == clear_statistics(statistics, date_before)
    IN  /\ statistics' = res.rows
        /\ statLast' = [StatCall EXCEPT !.op = "clear_statistics",
                                        !.date_before = date_before,
                                        !.deleted_count = res.ret,
                                        !.call = 1 - statLast.call]
        /\ UNCHANGED <<statSeq, datetime_now, pinVars, dbVars, cacheVars,
                       thrVars, gcVars, impVars, bkVars, conVars, pcVars, nmVars, rfVars, gsVars, mvVars, initVars>>

\* datetime.now() advances
StatTick ==
    /\ datetime_now < MaxStatTime
    /\ datetime_now' = datetime_now + 1
    /\ UNCHANGED <<statistics, statSeq, statLast, pinVars, dbVars, cacheVars,
                   thrVars, gcVars, impVars, bkVars, conVars, pcVars, nmVars, rfVars, gsVars, mvVars, initVars>>

\* this step is a call of the StatisticsService
CalledStatistics == statLast'.call # statLast.call

RecordOps == {"record_token_usage", "record_response_time",
              "record_model_usage"}

\* C19 as stated: every call to record_token_usage, record_response_time or
\* record_model_usage appends exactly one row to the statistics table and
\* returns that row's id; the id is the supplied event_id when one is given
\* and a freshly generated one otherwise.
C19_RecordAppendsOneRow ==
    [][(CalledStatistics /\ statLast'.op \in RecordOps) =>
        /\ \E row \in statistics' :
              /\ row \notin statistics
              /\ statistics' = statistics \cup {row}
              /\ row.id = statLast'.ret
        /\ IF statLast'.event_id # NULL
           THEN statLast'.ret = statLast'.event_id
           ELSE \A r \in statistics : r.id # statLast'.ret]_vars

\* C19, amended: every call to record_token_usage, record_response_time or
\* record_model_usage returns the supplied event_id when one is given and a
\* freshly generated id otherwise; when no stored row has that id, the call
\* appends exactly one row, which carries the id, and when a stored row has
\* it already (a supplied event_id used before), the call leaves the table
\* as it was.
C19_RecordAppendsOneRowPerId ==
    [][(CalledStatistics /\ statLast'.op \in RecordOps) =>
        /\ IF statLast'.event_id # NULL
           THEN statLast'.ret = statLast'.event_id
           ELSE \A r \in statistics : r.id # statLast'.ret
        /\ IF \E r \in statistics : r.id = statLast'.ret
           THEN statistics' = statistics
           ELSE \E row \in statistics' :
                   /\ row \notin statistics
                   /\ statistics' = statistics \cup {row}
                   /\ row.id = statLast'.ret
                   /\ Cardinality(statistics') = Cardinality(statistics) + 1]_vars

\* a call with the event_id of a stored token_usage row returned it without
\* appending anything
C19_Witness ==
    /\ statSeq = 2
    /\ statLast.op = "record_response_time"
    /\ statLast.event_id = "e1" /\ statLast.ret = "e1"
    /\ statistics # {}
    /\ \A r \in statistics : r.id = "e1" /\ r.event_type = "token_usage"

\* the instants of the inclusive window, in ticks
InWindow(tick, date_from, date_to) ==
    /\ date_from = NullInt \/ tick >= date_from
    /\ date_to = NullInt \/ tick <= date_to

C21_ClearDeletesBefore ==
    [][(CalledStatistics /\ statLast'.op = "clear_statistics") =>
        LET d == statLast'.date_before
        IN  /\ statistics' =
                  IF d = NullInt THEN {}
                  ELSE {r \in statistics : ~ (r.timestamp * TicksPerSecond < d)}
            /\ statLast'.deleted_count =
                  Cardinality(statistics) - Cardinality(statistics')]_vars

\* C21, amended: clear_statistics(date_before=d) deletes exactly the rows
\* whose stored timestamp, a whole second, is strictly before d with its
\* fraction of a second dropped, and leaves the other rows untouched;
\* clear_statistics() deletes all rows; in both cases the number returned is
\* the number of rows removed.
C21_ClearDeletesBeforeSecond ==
    [][(CalledStatistics /\ statLast'.op = "clear_statistics") =>
        LET d == statLast'.date_before
        IN  /\ statistics' =
                  IF d = NullInt THEN {}
                  ELSE {r \in statistics :
                          ~ (r.timestamp < d \div TicksPerSecond)}
            /\ statistics' \subseteq statistics
            /\ statLast'.deleted_count =
                  Cardinality(statistics) - Cardinality(statistics')]_vars

\* a call with a cutoff removed one row and kept a row stored at the second
\* of the cutoff
C21_Witness ==
    /\ statLast.op = "clear_statistics"
    /\ statLast.date_before # NullInt
    /\ statLast.deleted_count = 1
    /\ \E r \in statistics :
          r.timestamp = statLast.date_before \div TicksPerSecond

----------------------------------------------------------------------------
(* BackupService.  A database file is a function from the names of its     *)
(* user tables to their rows.  The live file is made of the tables above;  *)
(* model_preferences, instance, online_instance_model_list, prompt and     *)
(* bookmark are copied like the others and are left out.                   *)

NoFile == [t \in {} |-> {}]

\* the tables initialize() leaves in every live database
FixedTables == {"chat", "message", "attachment", "chat_folder", "model_pin",
                "statistics", "backup_schedule"}

\* SELECT name FROM sqlite_master WHERE type='table' AND name NOT LIKE 'sqlite_%'
LiveTables ==
    FixedTables \cup
        (IF tool_parameters.exists THEN {"tool_parameters"} ELSE {})

LiveRows(t) ==
    CASE t = "chat" -> chat
      [] t = "message" -> message
      [] t = "attachment" -> attachment
      [] t = "chat_folder" -> chat_folder
      [] t = "model_pin" -> model_pin
      [] t = "statistics" -> statistics
      [] t = "backup_schedule" -> backup_schedule
      [] OTHER -> tool_parameters.rows

\* the file at db_path
LiveFile == [t \in LiveTables |-> LiveRows(t)]

\* the paths restore_backup and create_backup are given
BackupPath == "backup.db"
OldPath == "old.db"
PreRestorePath == "alpaca.db.pre-restore-backup"
Paths == {BackupPath, OldPath, PreRestorePath}

\* a database file written by an earlier version, whose table
\* tool_parameters (primary key name, no column id) holds a row
OldFile ==
    [t \in FixedTables \cup {"tool_parameters"} |->
        CASE t = "chat" -> {[id |-> "c2", name |-> <<"N">>, folder |-> NULL,
                             is_template |-> FALSE]}
          [] t = "tool_parameters" -> {[name |-> "tool"]}
          [] OTHER -> {}]

\* schedule_auto_backup stops being called after this many calls
MaxSchedules == 1

\* os.path.exists(path)
Exists(fs, path) == fs[path] # NoFile

\* for table_name in tables: the tables create_backup creates in the file
TablesWithRows(file) == {t \in DOMAIN file : file[t] # {}}

TablesToCopy(file) == DOMAIN file

\* create_backup: the file written at backup_path
create_backup(live) == [t \in TablesToCopy(live) |-> live[t]]

\* _update_last_backup_time:
\*   UPDATE backup_schedule SET last_backup = ? WHERE enabled = 1
update_last_backup_time(schedules, current_time) ==
    {IF r.enabled THEN [r EXCEPT !.last_backup = current_time] ELSE r
       : r \in schedules}

\* 'id' in columns
HasIdColumn(t) == t # "tool_parameters"

\* INSERT OR IGNORE INTO table: a row whose id is stored is dropped
InsertOrIgnore(rows, new) ==
    rows \cup {r \in new : ~ \E l \in rows : l.id = r.id}

\* INSERT INTO tool_parameters raises sqlite3.IntegrityError when a name is
\* stored already
InsertRaises(rows, new) == \E r \in new, l \in rows : l.name = r.name

\* restore_backup, merge mode: whether a statement raises
merge_raises(live, backup) ==
    \E t \in DOMAIN backup \cap DOMAIN live :
        ~ HasIdColumn(t) /\ InsertRaises(live[t], backup[t])

\* restore_backup, merge mode: the live file after conn.commit()
merge_written(live, backup) ==
    [t \in DOMAIN live \cup DOMAIN backup |->
        IF t \notin DOMAIN backup THEN live[t]
        ELSE IF t \notin DOMAIN live THEN backup[t]
        ELSE IF HasIdColumn(t) THEN InsertOrIgnore(live[t], backup[t])
        ELSE live[t] \cup backup[t]]

\* restore_backup: the live file and the other files afterwards, and the
\* boolean returned
restore_backup(live, fs, backup_path, merge) ==
    IF ~ Exists(fs, backup_path)
    THEN [live |-> live, files |-> fs, ret |-> FALSE]
    ELSE IF ~ merge
    THEN LET copied == [fs EXCEPT ![PreRestorePath] = live]
         IN  [live |-> copied[backup_path], files |-> copied, ret |-> TRUE]
    ELSE IF merge_raises(live, fs[backup_path])
    THEN [live |-> live, files |-> fs, ret |-> FALSE]
    ELSE [live |-> merge_written(live, fs[backup_path]), files |-> fs,
          ret |-> TRUE]

BkInit ==
    /\ tool_parameters = [exists |-> FALSE, rows |-> {}]
    /\ backup_schedule = {}
    /\ schedSeq = 0
    /\ files = [p \in Paths |-> IF p = OldPath THEN OldFile ELSE NoFile]
    /\ bkLast = [op |-> "none", path |-> "", merge |-> FALSE, ret |-> FALSE,
                 call |-> 0]

\* the live file becomes f
StoreFile(f) ==
    /\ chat' = f["chat"]
    /\ message' = f["message"]
    /\ attachment' = f["attachment"]
    /\ chat_folder' = f["chat_folder"]
    /\ model_pin' = f["model_pin"]
    /\ statistics' = f["statistics"]
    /\ backup_schedule' = f["backup_schedule"]
    /\ tool_parameters' =
          IF "tool_parameters" \in DOMAIN f
          THEN [exists |-> TRUE, rows |-> f["tool_parameters"]]
          ELSE [exists |-> FALSE, rows |-> {}]

\* schedule_auto_backup: INSERT INTO backup_schedule (..., enabled) VALUES
\* (..., 1); last_backup is NULL (-1)
ScheduleAutoBackup ==
    /\ schedSeq < MaxSchedules
    /\ schedSeq' = schedSeq + 1
    /\ backup_schedule' = backup_schedule \cup
          {[id |-> schedSeq + 1, last_backup |-> -1, enabled |-> TRUE]}
    /\ bkLast' = [op |-> "schedule_auto_backup", path |-> BackupPath,
                  merge |-> FALSE, ret |-> TRUE,
                  call |-> 1 - bkLast.call]
    /\ UNCHANGED <<tool_parameters, files, pinVars, dbVars, cacheVars,
                   thrVars, gcVars, impVars, statVars, conVars, pcVars, nmVars, rfVars, gsVars, mvVars, initVars>>

\* cancel_auto_backup: DELETE FROM backup_schedule WHERE id=?
CancelAutoBackup(schedule_id) ==
    /\ backup_schedule' = {r \in backup_schedule : r.id # schedule_id}
    /\ bkLast' = [op |-> "cancel_auto_backup", path |-> "",
                  merge |-> FALSE, ret |-> TRUE,
                  call |-> 1 - bkLast.call]
    /\ UNCHANGED <<tool_parameters, schedSeq, files, pinVars, dbVars,
                   cacheVars, thrVars, gcVars, impVars, statVars, conVars, pcVars, nmVars, rfVars, gsVars, mvVars, initVars>>

\* create_backup(backup_path) returning True
CreateBackup(backup_path) ==
    /\ files' = [files EXCEPT ![backup_path] = create_backup(LiveFile)]
    /\ backup_schedule' = update_last_backup_time(backup_schedule, now)
    /\ bkLast' = [op |-> "create_backup", path |-> backup_path,
                  merge |-> FALSE, ret |-> TRUE,
                  call |-> 1 - bkLast.call]
    /\ UNCHANGED <<tool_parameters, schedSeq, pinVars, dbVars, cacheVars,
                   thrVars, gcVars, impVars, statVars, conVars, pcVars, nmVars, rfVars, gsVars, mvVars, initVars>>

\* restore_backup(backup_path, merge)
RestoreBackup(backup_path, merge) ==
    LET res == restore_backup(LiveFile, files, backup_path, merge)
    IN  /\ StoreFile(res.live)
        /\ files' = res.files
        /\ bkLast' = [op |-> "restore_backup", path |-> backup_path,
                      merge |-> merge, ret |-> res.ret,
                  call |-> 1 - bkLast.call]
        /\ UNCHANGED <<schedSeq, pinSeq, pinUpdates, pinLast, attSeq, dbLast,
                       statSeq, datetime_now, statLast, cacheVars, thrVars,
                       gcVars, impVars, conVars, pcVars, nmVars, rfVars, gsVars, mvVars, initVars>>

\* this step is a call of the BackupService
CalledBackup == bkLast'.call # bkLast.call

C17_ReplaceRestoresBackup ==
    [][(CalledBackup /\ bkLast'.op = "restore_backup" /\ ~ bkLast'.merge
          /\ bkLast'.ret) =>
        /\ LiveFile' = files[bkLast'.path]
        /\ files'[PreRestorePath] = LiveFile]_vars

\* C18: restore_backup(path, merge=True) leaves every row that existed live
\* unchanged, also the rows whose id occurs in the backup, and inserts every
\* backup row whose id does not exist live; merging the same backup a second
\* time changes nothing further.
C18_MergeKeepsLiveAddsNew ==
    [][(CalledBackup /\ bkLast'.op = "restore_backup" /\ bkLast'.merge
          /\ Exists(files, bkLast'.path)) =>
        LET backup == files[bkLast'.path]
        IN  /\ \A t \in DOMAIN LiveFile :
                  t \in DOMAIN LiveFile' /\ LiveFile[t] \subseteq LiveFile'[t]
            /\ \A t \in DOMAIN backup \cap DOMAIN LiveFile :
                  HasIdColumn(t) =>
                  \A r \in backup[t] :
                      (\A l \in LiveFile[t] : l.id # r.id) =>
                      r \in LiveFile'[t]
            /\ restore_backup(LiveFile', files', bkLast'.path, TRUE).live
                  = LiveFile']_vars

----------------------------------------------------------------------------
(* SQLiteConnection: one gateway operation, from __enter__ to the end of   *)
(* __exit__, beside another connection that reads the same file.           *)

\* a gateway operation stops being started after this many connections were
\* left open
MaxLeaked == 1

NoConnection == [open |-> FALSE, in_transaction |-> FALSE]

ConInit ==
    /\ sqlite_con = NoConnection
    /\ conPc = "idle"
    /\ pending = Database
    /\ bodyRaised = FALSE
    /\ reader = FALSE
    /\ leaked = 0

\* with SQLiteConnection() as c: __enter__ connects
ConEnter ==
    /\ conPc \in {"idle", "returned", "raised"}
    /\ leaked + (IF sqlite_con.open THEN 1 ELSE 0) <= MaxLeaked
    /\ leaked' = leaked + (IF sqlite_con.open THEN 1 ELSE 0)
    /\ sqlite_con' = [open |-> TRUE, in_transaction |-> FALSE]
    /\ pending' = Database
    /\ bodyRaised' = FALSE
    /\ conPc' = "body"
    /\ UNCHANGED <<reader, pinVars, dbVars, cacheVars, thrVars, gcVars,
                   impVars, statVars, bkVars, pcVars, nmVars, rfVars, gsVars, mvVars, initVars>>

\* the block of insert_or_update_chat: its statement opens a transaction, or
\* raises "database is locked" while a connection left open holds the lock;
\* `raises` is an error raised after the statement
ConBodyWrite(c, name, raises) ==
    /\ conPc = "body"
    /\ IF leaked > 0
       THEN /\ bodyRaised' = TRUE
            /\ UNCHANGED <<sqlite_con, pending, pcVars, nmVars, rfVars, gsVars, mvVars, initVars>>
       ELSE /\ pending' = insert_or_update_chat(pending, c, name, NULL, FALSE)
            /\ sqlite_con' = [sqlite_con EXCEPT !.in_transaction = TRUE]
            /\ bodyRaised' = raises
    /\ conPc' = "exit"
    /\ UNCHANGED <<reader, leaked, pinVars, dbVars, cacheVars, thrVars,
                   gcVars, impVars, statVars, bkVars, pcVars, nmVars, rfVars, gsVars, mvVars, initVars>>

\* the block of a get_* operation: SELECT only
ConBodyRead ==
    /\ conPc = "body"
    /\ conPc' = "exit"
    /\ UNCHANGED <<sqlite_con, pending, bodyRaised, reader, leaked, pinVars,
                   dbVars, cacheVars, thrVars, gcVars, impVars, statVars,
                   bkVars, pcVars, nmVars, rfVars, gsVars, mvVars, initVars>>

\* sqlite_con.commit() raises sqlite3.OperationalError (database is locked)
\* while another connection holds a SHARED lock
CommitRaises(shared) == shared

\* __exit__: commit when a transaction is open, then close
ConExit ==
    /\ conPc = "exit"
    /\ IF sqlite_con.in_transaction /\ CommitRaises(reader)
       THEN /\ conPc' = "raised"
            /\ UNCHANGED <<sqlite_con, dbVars, pcVars, nmVars, rfVars, gsVars, mvVars, initVars>>
       ELSE /\ IF sqlite_con.in_transaction
               THEN Store(pending) /\ UNCHANGED <<attSeq, dbLast, pcVars, nmVars, rfVars, gsVars, mvVars, initVars>>
               ELSE UNCHANGED dbVars
            /\ sqlite_con' = NoConnection
            /\ conPc' = IF bodyRaised THEN "raised" ELSE "returned"
    /\ UNCHANGED <<pending, bodyRaised, reader, leaked, pinVars, cacheVars,
                   thrVars, gcVars, impVars, statVars, bkVars, pcVars, nmVars, rfVars, gsVars, mvVars, initVars>>

\* another connection starts and ends a SELECT
ReaderBegin ==
    /\ ~ reader
    /\ reader' = TRUE
    /\ UNCHANGED <<sqlite_con, conPc, pending, bodyRaised, leaked, pinVars,
                   dbVars, cacheVars, thrVars, gcVars, impVars, statVars,
                   bkVars, pcVars, nmVars, rfVars, gsVars, mvVars, initVars>>

ReaderEnd ==
    /\ reader
    /\ reader' = FALSE
    /\ UNCHANGED <<sqlite_con, conPc, pending, bodyRaised, leaked, pinVars,
                   dbVars, cacheVars, thrVars, gcVars, impVars, statVars,
                   bkVars, pcVars, nmVars, rfVars, gsVars, mvVars, initVars>>

\* C22: every gateway operation that acquires a connection through
\* SQLiteConnection has closed it when the operation is left, whether it
\* returned or raised.
C22_ConnectionReleased ==
    conPc \in {"returned", "raised"} => ~ sqlite_con.open

----------------------------------------------------------------------------
(* insert_or_update: the id of the lookup, the update and the insert       *)

\* the insert_or_update operations of the chat, message and attachment tables
UpsertOps ==
    {"insert_or_update_chat", "insert_or_update_message",
     "insert_or_update_attachment"}

\* the primary id of the entity the last call was given
EntityId ==
    IF dbLast.op = "insert_or_update_attachment" THEN dbLast.name
    ELSE dbLast.id

\* the ids of the rows of the table the last call wrote
IdsOfTable ==
    CASE dbLast.op = "insert_or_update_chat" -> {r.id : r \in chat}
      [] dbLast.op = "insert_or_update_message" -> {r.id : r \in message}
      [] dbLast.op = "insert_or_update_attachment" ->
            {r.id : r \in attachment}
      [] OTHER -> {}

\* C23: insert_or_update for Chat, Message and Attachment rows is keyed by
\* the entity's primary id: after a call a row of the table carries that id
\* (ids are primary keys, so it is the only one).
C23_UpsertKeyedByEntityId ==
    dbLast.op \in UpsertOps => EntityId \in IdsOfTable

\* C27: after insert_or_update_chat(chat) the row stored under the chat's id
\* has name, folder and is_template equal to the chat object's values,
\* whether the row was inserted or updated.
C27_ChatRowEqualsObject ==
    dbLast.op = "insert_or_update_chat" =>
        \E r \in chat :
            /\ r.id = dbLast.id
            /\ r.name = dbLast.name
            /\ r.folder = dbLast.folder
            /\ r.is_template = dbLast.is_template

----------------------------------------------------------------------------
(* pin_model on two connections: one step per SQL statement                *)

PinConnections == {"k1", "k2"}

NoWriter == "NoWriter"

PinIdle ==
    [pc |-> "idle", model_name |-> "", instance_id |-> "", pin_id |-> 0,
     next_order |-> 0]

PinConInit ==
    /\ pinCon = [k \in PinConnections |-> PinIdle]
    /\ writer = NoWriter

\* pin_id = generate_uuid(); with SQLiteConnection(db_path) as c
PinBegin(k, m, i) ==
    /\ pinCon[k].pc = "idle"
    /\ pinSeq < MaxPinInserts
    /\ pinSeq' = pinSeq + 1
    /\ pinCon' = [pinCon EXCEPT ![k] =
          [pc |-> "lookup", model_name |-> m, instance_id |-> i,
           pin_id |-> pinSeq + 1, next_order |-> 0]]
    /\ UNCHANGED <<model_pin, pinUpdates, pinLast, writer, dbVars, cacheVars,
                   thrVars, gcVars, impVars, statVars, bkVars, conVars, nmVars, rfVars, gsVars, mvVars, initVars>>

\* SELECT id ... ; if existing: return existing[0]
PinSelectExisting(k) ==
    /\ pinCon[k].pc = "lookup"
    /\ pinCon' = [pinCon EXCEPT ![k].pc =
          IF PinLookup(model_pin, pinCon[k].model_name,
                       pinCon[k].instance_id) # {}
          THEN "returned" ELSE "max"]
    /\ UNCHANGED <<pinVars, writer, dbVars, cacheVars, thrVars, gcVars,
                   impVars, statVars, bkVars, conVars, nmVars, rfVars, gsVars, mvVars, initVars>>

\* SELECT MAX(pin_order) ... ; next_order = (max_order or 0) + 1
PinSelectMax(k) ==
    /\ pinCon[k].pc = "max"
    /\ pinCon' = [pinCon EXCEPT
          ![k].pc = "insert",
          ![k].next_order = next_order(model_pin, pinCon[k].instance_id)]
    /\ UNCHANGED <<pinVars, writer, dbVars, cacheVars, thrVars, gcVars,
                   impVars, statVars, bkVars, conVars, nmVars, rfVars, gsVars, mvVars, initVars>>

\* INSERT INTO model_pin ...: opens the connection's transaction, and waits
\* while another connection's transaction holds the write lock
PinInsert(k) ==
    /\ pinCon[k].pc = "insert"
    /\ writer = NoWriter
    /\ writer' = k
    /\ pinCon' = [pinCon EXCEPT ![k].pc = "commit"]
    /\ UNCHANGED <<pinVars, dbVars, cacheVars, thrVars, gcVars, impVars,
                   statVars, bkVars, conVars, nmVars, rfVars, gsVars, mvVars, initVars>>

\* __exit__: commit() makes the inserted row visible, then close()
PinCommit(k) ==
    /\ pinCon[k].pc = "commit"
    /\ model_pin' = model_pin \cup
          {[id |-> pinCon[k].pin_id, model_name |-> pinCon[k].model_name,
            instance_id |-> pinCon[k].instance_id,
            pin_order |-> pinCon[k].next_order]}
    /\ writer' = NoWriter
    /\ pinCon' = [pinCon EXCEPT ![k].pc = "returned"]
    /\ UNCHANGED <<pinSeq, pinUpdates, pinLast, dbVars, cacheVars, thrVars,
                   gcVars, impVars, statVars, bkVars, conVars, nmVars, rfVars, gsVars, mvVars, initVars>>

\* C26: when two pin_model calls for different models of the same instance
\* have run concurrently, each on its own connection, and both have returned,
\* the pin_order values of the instance are pairwise distinct and contiguous
\* 1..N.
C26_ConcurrentPinsContiguous ==
    (/\ \A k \in PinConnections : pinCon[k].pc = "returned"
     /\ pinCon["k1"].instance_id = pinCon["k2"].instance_id
     /\ pinCon["k1"].model_name # pinCon["k2"].model_name) =>
        Contiguous(model_pin, pinCon["k1"].instance_id)

----------------------------------------------------------------------------
(* generate_numbered_name as a function of its two arguments               *)

\* the longest compare_list
MaxListLen == 3

\* names without and with a dot, and a name that is only a dot
BaseNames == {<<"N">>, <<"N", ".", "t">>, <<".">>}

\* the names given to the function: base names and their numbered names
NameUniverse ==
    BaseNames \cup {NumberedName(b, i) : b \in BaseNames, i \in 1 .. 2}

CompareLists == UNION {[1 .. n -> NameUniverse] : n \in 0 .. MaxListLen}

NameInit ==
    nameLast = [op |-> "none", name |-> << >>, compare_list |-> << >>,
                ret |-> << >>]

\* the function reads nothing but its arguments, so one call per behaviour
\* covers every call
GenerateNumberedName(name, compare_list) ==
    /\ nameLast.op = "none"
    /\ nameLast' = [op |-> "generate_numbered_name", name |-> name,
                    compare_list |-> compare_list,
                    ret |-> generate_numbered_name(name, compare_list)]
    /\ UNCHANGED <<pinVars, dbVars, cacheVars, thrVars, gcVars, impVars,
                   statVars, bkVars, conVars, pcVars, rfVars, gsVars, mvVars, initVars>>

\* C30: generate_numbered_name(name, compare_list) returns a name that is
\* not in compare_list, for every input, and returns name unchanged exactly
\* when name is not in compare_list.
C30_NumberedNameIsNew ==
    nameLast.op = "generate_numbered_name" =>
        /\ ~ InList(nameLast.ret, nameLast.compare_list)
        /\ nameLast.ret = nameLast.name
              <=> ~ InList(nameLast.name, nameLast.compare_list)

\* a dotted name whose first numbered name is in the list too, in a list as
\* long as the numbers tried: the second numbered name is returned
C30_Witness ==
    /\ nameLast.op = "generate_numbered_name"
    /\ HasDot(nameLast.name)
    /\ Len(nameLast.compare_list) = 2
    /\ InList(nameLast.name, nameLast.compare_list)
    /\ InList(NumberedName(nameLast.name, 1), nameLast.compare_list)
    /\ nameLast.ret = NumberedName(nameLast.name, 2)

----------------------------------------------------------------------------
(* remove_folder, one step per block of a call and per recursive call      *)

RfInit ==
    /\ rfStack = << >>
    /\ rfLast = [folder_id |-> NULL, cyclic |-> FALSE, visited |-> {},
                 returned |-> TRUE]

Top == rfStack[Len(rfStack)]

\* for row in result: the rows still to visit once row g has been taken
RestKeeps(result, g) == result

Rest(result, g) == result \ {g}

\* Instance.remove_folder(folder_id) called by the program
RfCall(f) ==
    /\ rfStack = << >>
    /\ rfStack' = IF f = NULL THEN << >>
                  ELSE <<[folder_id |-> f, pc |-> "delete", result |-> {}]>>
    /\ rfLast' = [folder_id |-> f,
                  cyclic |-> f \in Ancestors(chat_folder, f),
                  visited |-> {f}, returned |-> f = NULL]
    /\ UNCHANGED <<pinVars, dbVars, cacheVars, thrVars, gcVars, impVars,
                   statVars, bkVars, conVars, pcVars, nmVars, gsVars, mvVars, initVars>>

\* DELETE FROM chat_folder WHERE id=?; SELECT id FROM chat WHERE folder=?;
\* delete_chat for each row
RfDelete ==
    /\ rfStack # << >>
    /\ Top.pc = "delete"
    /\ LET s1 == DeleteFolderRow(Database, Top.folder_id)
       IN  Store(DeleteChats(s1, ChatsInFolder(s1, Top.folder_id)))
    /\ rfStack' = [rfStack EXCEPT ![Len(rfStack)].pc = "select"]
    /\ UNCHANGED <<attSeq, dbLast, rfLast, pinVars, cacheVars, thrVars,
                   gcVars, impVars, statVars, bkVars, conVars, pcVars,
                   nmVars, gsVars, mvVars, initVars>>

\* SELECT id FROM chat_folder WHERE parent=?
RfSelect ==
    /\ rfStack # << >>
    /\ Top.pc = "select"
    /\ rfStack' = [rfStack EXCEPT
          ![Len(rfStack)].pc = "loop",
          ![Len(rfStack)].result = Subfolders(Database, Top.folder_id)]
    /\ UNCHANGED <<rfLast, pinVars, dbVars, cacheVars, thrVars, gcVars,
                   impVars, statVars, bkVars, conVars, pcVars, nmVars, gsVars, mvVars, initVars>>

\* for row in result: Instance.remove_folder(row[0])
RfRecurse ==
    /\ rfStack # << >>
    /\ Top.pc = "loop"
    /\ \E g \in Top.result :
          /\ rfStack' = Append(
                [rfStack EXCEPT
                    ![Len(rfStack)].result = Rest(Top.result, g)],
                [folder_id |-> g, pc |-> "delete", result |-> {}])
          /\ rfLast' = [rfLast EXCEPT !.visited = rfLast.visited \cup {g}]
    /\ UNCHANGED <<pinVars, dbVars, cacheVars, thrVars, gcVars, impVars,
                   statVars, bkVars, conVars, pcVars, nmVars, gsVars, mvVars, initVars>>

\* the loop is over: the call returns to its caller
RfReturn ==
    /\ rfStack # << >>
    /\ Top.pc = "loop"
    /\ Top.result = {}
    /\ rfStack' = SubSeq(rfStack, 1, Len(rfStack) - 1)
    /\ rfLast' = [rfLast EXCEPT !.returned = Len(rfStack) = 1]
    /\ UNCHANGED <<pinVars, dbVars, cacheVars, thrVars, gcVars, impVars,
                   statVars, bkVars, conVars, pcVars, nmVars, gsVars, mvVars, initVars>>

RfStep == RfDelete \/ RfSelect \/ RfRecurse \/ RfReturn

\* C29: remove_folder(f) terminates for every stored parent relation, a
\* cyclic one and a folder that is its own parent included: a call that is
\* running returns.
C29_RemoveFolderTerminates == (rfStack # << >>) ~> (rfStack = << >>)

\* a call on a folder of a cycle has returned after calling itself for the
\* other folders of the cycle
C29_Witness ==
    /\ rfStack = << >>
    /\ rfLast.returned
    /\ rfLast.cyclic
    /\ Cardinality(rfLast.visited) >= 3

----------------------------------------------------------------------------
(* GlobalSearch: debounce timer, search threads and idle callbacks         *)

\* entry events handled at most
MaxSearchEvents == 3

\* what the user can have typed
Texts == {"", " ", "a", "b"}

\* entry.get_text().strip()
Strip(text) == IF text = " " THEN "" ELSE text

\* search_all_chats(query): the results are named by their query
SearchAllChats(query) == query

GsInit ==
    /\ entry_text = ""
    /\ search_timeout_id = None
    /\ searchThreads = {}
    /\ idleQueue = << >>
    /\ results_listbox = None
    /\ results_stack = "empty"
    /\ current_results = None
    /\ gsEvents = 0

\* _perform_search: queue the loading page, start the search thread
PerformSearch(queue, query) ==
    /\ search_timeout_id' = None
    /\ idleQueue' = Append(queue, [f |-> "set_visible_child_name",
                                    arg |-> "loading"])
    /\ searchThreads' = searchThreads \cup {[n |-> gsEvents, query |-> query]}

\* on_search_changed: the user edited the text; the pending timer is
\* removed first
OnSearchChanged(text) ==
    /\ gsEvents < MaxSearchEvents
    /\ gsEvents' = gsEvents + 1
    /\ entry_text' = text
    /\ IF Strip(text) = ""
       THEN /\ idleQueue' = idleQueue \o
                  <<[f |-> "set_visible_child_name", arg |-> "empty"],
                    [f |-> "remove_all", arg |-> None]>>
            /\ current_results' = None
            /\ search_timeout_id' = None
       ELSE /\ search_timeout_id' = Strip(text)
            /\ UNCHANGED <<idleQueue, current_results, mvVars, initVars>>
    /\ UNCHANGED <<searchThreads, results_listbox, results_stack, pinVars,
                   dbVars, cacheVars, thrVars, gcVars, impVars, statVars,
                   bkVars, conVars, pcVars, nmVars, rfVars, mvVars, initVars>>

\* on_search_activate: Enter pressed
OnSearchActivate ==
    /\ gsEvents < MaxSearchEvents
    /\ gsEvents' = gsEvents + 1
    /\ IF Strip(entry_text) # ""
       THEN PerformSearch(idleQueue, Strip(entry_text))
       ELSE /\ search_timeout_id' = None
            /\ UNCHANGED <<idleQueue, searchThreads, mvVars, initVars>>
    /\ UNCHANGED <<entry_text, results_listbox, results_stack,
                   current_results, pinVars, dbVars, cacheVars, thrVars,
                   gcVars, impVars, statVars, bkVars, conVars, pcVars, nmVars,
                   rfVars, mvVars, initVars>>

\* the debounce timer fires: _perform_search(query)
SearchTimeout ==
    /\ search_timeout_id # None
    /\ PerformSearch(idleQueue, search_timeout_id)
    /\ UNCHANGED <<entry_text, results_listbox, results_stack,
                   current_results, gsEvents, pinVars, dbVars, cacheVars,
                   thrVars, gcVars, impVars, statVars, bkVars, conVars,
                   pcVars, nmVars, rfVars, mvVars, initVars>>

\* _search_thread: the search ends and queues _display_results, or raises
\* and queues the error page
SearchThread(t, raises) ==
    /\ t \in searchThreads
    /\ searchThreads' = searchThreads \ {t}
    /\ idleQueue' = Append(idleQueue,
          IF raises THEN [f |-> "set_visible_child_name", arg |-> "error"]
          ELSE [f |-> "_display_results", arg |-> SearchAllChats(t.query)])
    /\ UNCHANGED <<entry_text, search_timeout_id, results_listbox,
                   results_stack, current_results, gsEvents, pinVars, dbVars,
                   cacheVars, thrVars, gcVars, impVars, statVars, bkVars,
                   conVars, pcVars, nmVars, rfVars, mvVars, initVars>>

\* the main loop runs the oldest idle callback
IdleCallback ==
    /\ idleQueue # << >>
    /\ idleQueue' = Tail(idleQueue)
    /\ LET cb == Head(idleQueue)
       IN  CASE cb.f = "set_visible_child_name" ->
                  /\ results_stack' = cb.arg
                  /\ UNCHANGED <<results_listbox, current_results, mvVars, initVars>>
             [] cb.f = "remove_all" ->
                  /\ results_listbox' = None
                  /\ UNCHANGED <<results_stack, current_results, mvVars, initVars>>
             [] cb.f = "_display_results" ->
                  /\ results_listbox' = cb.arg
                  /\ current_results' = cb.arg
                  /\ results_stack' = "results"
    /\ UNCHANGED <<entry_text, search_timeout_id, searchThreads, gsEvents,
                   pinVars, dbVars, cacheVars, thrVars, gcVars, impVars,
                   statVars, bkVars, conVars, pcVars, nmVars, rfVars, mvVars, initVars>>

\* no debounce timer, search thread or idle callback is pending
SearchQuiet ==
    /\ search_timeout_id = None
    /\ searchThreads = {}
    /\ idleQueue = << >>

\* C25: once all pending debounce timers, search threads and idle callbacks
\* have run, the results displayed are those of the most recent query, and
\* no results are displayed when the query was cleared.
C25_DisplayedResultsAreLatest ==
    SearchQuiet =>
        IF Strip(entry_text) = "" THEN results_listbox = None
        ELSE results_listbox \in {None, SearchAllChats(Strip(entry_text))}

----------------------------------------------------------------------------
(* MessageVirtualizationManager                                            *)

MIN_MESSAGES_FOR_VIRTUALIZATION == 20

\* the container holds at most this many messages
MaxMessages == 21

\* on_messages_loaded is called at most this many times
MaxLoads == 1

\* every message is as high as this, and the viewport shows two of them
Geometry == [height |-> 100, page_size |-> 200]

\* adjustment.get_value(): the top, 40 below it, the middle, the bottom
ScrollValues == {0, 40, 1000, 1800}

Abs(x) == IF x < 0 THEN 0 - x ELSE x

Max(a, b) == IF a >= b THEN a ELSE b

\* is_in_buffer for the message at position m of the container
IsInBuffer(m, viewport_top) ==
    LET viewport_height == Geometry.page_size
        viewport_bottom == viewport_top + viewport_height
        buffer_top == Max(0, viewport_top - viewport_height)
        buffer_bottom == viewport_bottom + viewport_height
        message_top == (m - 1) * Geometry.height
        message_bottom == message_top + Geometry.height
    IN  message_bottom >= buffer_top /\ message_top <= buffer_bottom

\* if not self.enabled: return False
UpdateRunsAlways(is_enabled) == TRUE

UpdateRuns(is_enabled) == is_enabled

\* _show_all_messages
show_all_messages(count) == 1 .. count

\* _update_visible_messages: the visible messages afterwards; the messages
\* that are not realized are passed over
update_visible_messages(vis, is_enabled, count, viewport_top, realized) ==
    IF ~ UpdateRuns(is_enabled) THEN vis
    ELSE IF count < MIN_MESSAGES_FOR_VIRTUALIZATION
    THEN show_all_messages(count)
    ELSE (vis \ {m \in realized : ~ IsInBuffer(m, viewport_top)})
            \cup {m \in realized : IsInBuffer(m, viewport_top)}

\* get_realized(): all messages, or all but the one added last
RealizedSets == {1 .. message_count, 1 .. (message_count - 1)}

MvInit ==
    /\ enabled = TRUE
    /\ update_timeout_id = FALSE
    /\ pendingUpdates = 0
    /\ loads = 0
    /\ vadj_value = 0
    /\ last_adjustment_value = 0
    /\ message_count = 0
    /\ visible = {}
    /\ mvLast = [op |-> "none", enabled |-> TRUE]

\* GLib.source_remove(self._update_timeout_id) when it is set
SourceRemoved == IF update_timeout_id THEN pendingUpdates - 1 ELSE pendingUpdates

OtherGroups ==
    <<pinVars, dbVars, cacheVars, thrVars, gcVars, impVars, statVars, bkVars,
      conVars, pcVars, nmVars, rfVars, gsVars, initVars>>

Enable ==
    /\ enabled' = TRUE
    /\ pendingUpdates' = SourceRemoved + 1
    /\ update_timeout_id' = TRUE
    /\ mvLast' = [op |-> "enable", enabled |-> TRUE]
    /\ UNCHANGED <<loads, vadj_value, last_adjustment_value, message_count,
                   visible, OtherGroups, initVars>>

Disable ==
    /\ enabled' = FALSE
    /\ pendingUpdates' = SourceRemoved
    /\ update_timeout_id' = FALSE
    /\ visible' = show_all_messages(message_count)
    /\ mvLast' = [op |-> "disable", enabled |-> FALSE]
    /\ UNCHANGED <<loads, vadj_value, last_adjustment_value, message_count,
                   OtherGroups, initVars>>

\* the user scrolls: value-changed calls _on_scroll
OnScroll(current_value) ==
    /\ current_value # vadj_value
    /\ vadj_value' = current_value
    /\ IF enabled /\ Abs(current_value - last_adjustment_value) > 50
       THEN /\ last_adjustment_value' = current_value
            /\ pendingUpdates' = SourceRemoved + 1
            /\ update_timeout_id' = TRUE
       ELSE UNCHANGED <<last_adjustment_value, pendingUpdates,
                        update_timeout_id, initVars>>
    /\ mvLast' = [op |-> "_on_scroll", enabled |-> enabled]
    /\ UNCHANGED <<enabled, loads, message_count, visible, OtherGroups, initVars>>

\* a timer fires and calls _update_visible_messages
UpdateTimeout(realized) ==
    /\ pendingUpdates > 0
    /\ pendingUpdates' = pendingUpdates - 1
    /\ update_timeout_id' = FALSE
    /\ visible' = update_visible_messages(visible, enabled, message_count,
                                          vadj_value, realized)
    /\ mvLast' = [op |-> "_update_visible_messages", enabled |-> enabled]
    /\ UNCHANGED <<enabled, loads, vadj_value, last_adjustment_value,
                   message_count, OtherGroups, initVars>>

UpdateNow(realized) ==
    /\ pendingUpdates' = SourceRemoved
    /\ update_timeout_id' = FALSE
    /\ visible' = IF enabled
                  THEN update_visible_messages(visible, enabled,
                           message_count, vadj_value, realized)
                  ELSE visible
    /\ mvLast' = [op |-> "update_now", enabled |-> enabled]
    /\ UNCHANGED <<enabled, loads, vadj_value, last_adjustment_value,
                   message_count, OtherGroups, initVars>>

OnMessagesLoaded ==
    /\ loads < MaxLoads
    /\ loads' = loads + 1
    /\ pendingUpdates' = pendingUpdates + 1
    /\ mvLast' = [op |-> "on_messages_loaded", enabled |-> enabled]
    /\ UNCHANGED <<enabled, update_timeout_id, vadj_value,
                   last_adjustment_value, message_count, visible,
                   OtherGroups, initVars>>

\* the chat appends a message widget to the container; widgets are visible
\* when created
AddMessage ==
    /\ message_count < MaxMessages
    /\ message_count' = message_count + 1
    /\ visible' = visible \cup {message_count + 1}
    /\ mvLast' = [op |-> "append", enabled |-> enabled]
    /\ UNCHANGED <<enabled, update_timeout_id, pendingUpdates, loads,
                   vadj_value, last_adjustment_value, OtherGroups, initVars>>

\* C28: while the manager is disabled it never hides a message: a step that
\* starts or ends with enabled False leaves every visible message visible.
C28_DisabledNeverHides ==
    [][(~ enabled \/ ~ enabled') => visible \subseteq visible']_vars

\* a timer has called _update_visible_messages while the manager was
\* disabled, with enough messages to virtualize and a visible message
\* outside the buffer
C28_Witness ==
    /\ mvLast.op = "_update_visible_messages"
    /\ ~ mvLast.enabled
    /\ ~ enabled
    /\ message_count >= MIN_MESSAGES_FOR_VIRTUALIZATION
    /\ \E m \in visible : ~ IsInBuffer(m, vadj_value)

----------------------------------------------------------------------------
(* initialize(): table creation and the migrations of older databases      *)

\* initialize() runs at most this many times
MaxInitRuns == 3

\* tables = {...}: the columns of every table initialize() creates
TableColumns ==
    [chat |-> {"id", "name", "folder", "is_template"},
     message |-> {"id", "chat_id", "role", "model", "date_time", "content"},
     attachment |-> {"id", "message_id", "type", "name", "content"},
     model_preferences |-> {"id", "picture", "voice"},
     instance |-> {"id", "pinned", "type", "properties"},
     tool_parameters |-> {"name", "variables", "activated"},
     online_instance_model_list |-> {"id", "list"},
     chat_folder |-> {"id", "name", "color", "parent"},
     prompt |-> {"id", "name", "content", "category", "created_at"},
     bookmark |-> {"id", "message_id", "created_at"},
     model_pin |-> {"id", "model_name", "instance_id", "pin_order"},
     statistics |-> {"id", "event_type", "model", "tokens_used",
                     "response_time_ms", "timestamp"},
     backup_schedule |-> {"id", "interval_hours", "backup_path",
                          "last_backup", "enabled"}]

\* the tables a run leaves behind: all it creates but the one it drops
CurrentTables == DOMAIN TableColumns \ {"tool_parameters"}

\* a table: its columns, its rows, and the row a SELECT returns first
Table(columns, rows, first) ==
    [columns |-> columns, rows |-> rows, first |-> first]

\* DROP TABLE t
DropTable(db, t) == [x \in DOMAIN db \ {t} |-> db[x]]

\* CREATE TABLE IF NOT EXISTS for every table of tables
CreateTables(db) ==
    [t \in DOMAIN db \cup DOMAIN TableColumns |->
        IF t \in DOMAIN db THEN db[t]
        ELSE Table(TableColumns[t], {}, NULL)]

\* ALTER TABLE chat ADD COLUMN col ... : stored rows read the default
AddColumn(db, col, default) ==
    IF col \in db.chat.columns THEN db
    ELSE [db EXCEPT !.chat =
            Table(db.chat.columns \cup {col},
                  {[c \in DOMAIN r \cup {col} |->
                      IF c = col THEN default ELSE r[c]] : r \in db.chat.rows},
                  NULL)]

\* "Rebuild chat table (remove type)": only id and name are copied
RebuildChatAlways(db, columns) ==
    [db EXCEPT !.chat =
        Table(TableColumns.chat,
              {[id |-> r.id, name |-> r.name, folder |-> NULL,
                is_template |-> 0] : r \in db.chat.rows},
              NULL)]

RebuildChat(db, columns) ==
    IF "type" \notin columns THEN db
    ELSE [db EXCEPT !.chat =
            Table(TableColumns.chat,
                  {[id |-> r.id, name |-> r.name, folder |-> NULL,
                    is_template |-> 0] : r \in db.chat.rows},
                  NULL)]

\* the loop over "SELECT id, picture FROM model" runs its INSERT on the
\* cursor it iterates, so it ends after the first row; an exception (no
\* model table, or the id is stored already) is passed over
MigrateModel(db) ==
    IF "model" \notin DOMAIN db THEN db
    ELSE IF db.model.rows = {} THEN DropTable(db, "model")
    ELSE LET p == db.model.first
         IN  IF \E r \in db.model_preferences.rows : r.id = p.id THEN db
             ELSE DropTable(
                    [db EXCEPT !.model_preferences.rows =
                        @ \cup {[id |-> p.id, picture |-> p.picture,
                                 voice |-> NULL]}],
                    "model")

\* "Move preferences to GLib": the table is dropped
MigratePreferences(db) ==
    IF "preferences" \in DOMAIN db THEN DropTable(db, "preferences") ELSE db

\* "Move Instances to new table": [db, raised]; an id that is stored already
\* raises IntegrityError out of initialize()
MigrateInstances(db) ==
    IF "instances" \notin DOMAIN db THEN [db |-> db, raised |-> FALSE]
    ELSE IF \E o \in db.instances.rows, r \in db.instance.rows : r.id = o.id
    THEN [db |-> db, raised |-> TRUE]
    ELSE [db |-> DropTable(
                   [db EXCEPT !.instance.rows =
                       @ \cup {[id |-> o.id, pinned |-> o.pinned,
                                type |-> o.type,
                                properties |-> <<"name", o.name>>]
                                  : o \in db.instances.rows}],
                   "instances"),
          raised |-> FALSE]

\* "Remove tool_parameters table"
RemoveToolParameters(db) ==
    IF "tool_parameters" \in DOMAIN db THEN DropTable(db, "tool_parameters")
    ELSE db

\* initialize(): [db, raised]
initialize(db) ==
    LET s1 == CreateTables(db)
        columns == s1.chat.columns
        s2 == AddColumn(s1, "folder", NULL)
        s3 == AddColumn(s2, "is_template", 0)
        s4 == RebuildChat(s3, columns)
        s5 == MigratePreferences(MigrateModel(s4))
        s6 == MigrateInstances(s5)
    IN  IF s6.raised THEN s6
        ELSE [db |-> RemoveToolParameters(s6.db), raised |-> FALSE]

\* what a version of the program from before a migration has left in the file
LegacyTables ==
    {[name |-> "chat",
      table |-> Table({"id", "name", "type"},
                      {[id |-> "c1", name |-> <<"N">>, type |-> "chat"]},
                      NULL)],
     [name |-> "chat",
      table |-> Table({"id", "name"}, {[id |-> "c1", name |-> <<"N">>]},
                      NULL)],
     [name |-> "chat",
      table |-> Table({"id", "name", "folder"},
                      {[id |-> "c1", name |-> <<"N">>, folder |-> "f1"]},
                      NULL)],
     [name |-> "model",
      table |-> Table({"id", "picture"},
                      {[id |-> "model1", picture |-> "p1"],
                       [id |-> "model2", picture |-> "p2"]},
                      [id |-> "model1", picture |-> "p1"])],
     [name |-> "model", table |-> Table({"id", "picture"}, {}, NULL)],
     [name |-> "preferences",
      table |-> Table({"id", "value", "type"},
                      {[id |-> "zoom", value |-> "100", type |-> "int"]},
                      NULL)],
     [name |-> "instances",
      table |-> Table({"id", "name", "type", "pinned"},
                      {[id |-> "i1", name |-> "Ollama", type |-> "ollama",
                        pinned |-> 0]},
                      NULL)],
     [name |-> "tool_parameters",
      table |-> Table(TableColumns.tool_parameters,
                      {[name |-> "tool", variables |-> "{}",
                        activated |-> 1]},
                      NULL)]}

\* the rows the program stores in the current tables
ProgramRows ==
    {[name |-> "chat",
      row |-> [id |-> "c2", name |-> <<"N">>, folder |-> "f1",
               is_template |-> 1]],
     [name |-> "model_preferences",
      row |-> [id |-> "model2", picture |-> NULL, voice |-> "v"]],
     [name |-> "instance",
      row |-> [id |-> "i2", pinned |-> 1, type |-> "openai",
               properties |-> <<"name", "OpenAI">>]]}

NoTables == [x \in {} |-> {}]

SqlInit ==
    /\ sqlTables = NoTables
    /\ initRuns = 0
    /\ initLast = [call |-> 0, raised |-> FALSE, db |-> NoTables]

InitOthers ==
    <<pinVars, dbVars, cacheVars, thrVars, gcVars, impVars, statVars, bkVars,
      conVars, pcVars, nmVars, rfVars, gsVars, mvVars>>

\* an older version of the program has created a table
LegacyCreate(l) ==
    /\ initRuns = 0
    /\ l.name \notin DOMAIN sqlTables
    /\ sqlTables' = [t \in DOMAIN sqlTables \cup {l.name} |->
                        IF t = l.name THEN l.table ELSE sqlTables[t]]
    /\ UNCHANGED <<initRuns, initLast, InitOthers>>

Initialize ==
    /\ initRuns < MaxInitRuns
    /\ initRuns' = initRuns + 1
    /\ LET res == initialize(sqlTables)
       IN  /\ sqlTables' = res.db
           /\ initLast' = [call |-> 1 - initLast.call, raised |-> res.raised,
                          db |-> res.db]
    /\ UNCHANGED InitOthers

\* the program stores a row between two runs
InsertRow(p) ==
    /\ initRuns > 0
    /\ p.name \in DOMAIN sqlTables
    /\ ~ \E r \in sqlTables[p.name].rows : r.id = p.row.id
    /\ sqlTables' = [sqlTables EXCEPT ![p.name].rows = @ \cup {p.row}]
    /\ UNCHANGED <<initRuns, initLast, InitOthers>>

\* the program deletes a row between two runs
DeleteRow(t, id) ==
    /\ initRuns > 0
    /\ t \in DOMAIN sqlTables
    /\ \E r \in sqlTables[t].rows : r.id = id
    /\ sqlTables' = [sqlTables EXCEPT
          ![t].rows = {r \in @ : r.id # id}]
    /\ UNCHANGED <<initRuns, initLast, InitOthers>>

\* the schema: the tables and their columns
Schema(db) == [t \in DOMAIN db |-> db[t].columns]

\* C24: initialize() is idempotent: a run on a database that an earlier run
\* created or migrated changes neither the tables and their columns nor a
\* stored row, and after every run all current tables exist.
C24_InitializeIdempotent ==
    [][initLast'.call # initLast.call =>
        /\ CurrentTables \subseteq DOMAIN sqlTables'
        /\ initRuns > 0 =>
              /\ Schema(sqlTables') = Schema(sqlTables)
              /\ sqlTables' = sqlTables]_vars

\* the third run, on a database whose first run migrated a legacy chat
\* table and a legacy instances table and that holds rows stored since
C24_Witness ==
    /\ initRuns = 3
    /\ sqlTables = initLast.db
    /\ \E r \in sqlTables.chat.rows : r.id = "c1" /\ r.is_template = 0
    /\ \E r \in sqlTables.chat.rows : r.id = "c2"
    /\ \E r \in sqlTables.instance.rows : r.id = "i1"
    /\ \E r \in sqlTables.model_preferences.rows : r.id = "model1"
    /\ "model" \notin DOMAIN sqlTables

----------------------------------------------------------------------------
(* Specifications                                                          *)

Init == PinInit /\ DbInit /\ CacheInit /\ ThreadInit
        /\ GcInit /\ ImpInit /\ StatInit /\ BkInit /\ ConInit
        /\ PinConInit /\ NameInit /\ RfInit /\ GsInit /\ MvInit
        /\ SqlInit

\* pin_model and unpin_model only
NextPin ==
    \/ \E m \in Models, i \in Instances : PinModel(m, i)
    \/ \E m \in Models, i \in Instances : UnpinModel(m, i)

SpecPin == Init /\ [][NextPin]_vars

\* pin_model, unpin_model and update_model_pin_order
NextPinUpdate ==
    \/ \E m \in Models, i \in Instances : PinModel(m, i)
    \/ \E m \in Models, i \in Instances : UnpinModel(m, i)
    \/ \E m \in Models, i \in Instances, n \in NewOrders :
          UpdateModelPinOrder(m, i, n)

SpecPinOrder == Init /\ [][NextPinUpdate]_vars

\* chats, messages and attachments; chats are stored at the root or in f1
NextChat ==
    \/ \E c \in ChatIds, n \in ChatNames, f \in {NULL, "f1"}, t \in BOOLEAN :
          InsertOrUpdateChat(c, n, f, t)
    \/ \E m \in MessageIds, c \in ChatIds : InsertOrUpdateMessage(m, c)
    \/ \E m \in MessageIds, a \in AttachmentNames :
          InsertOrUpdateAttachment(m, a)
    \/ \E m \in MessageIds : DeleteMessage(m)
    \/ \E c \in ChatIds, k \in 0 .. 3, done \in SUBSET MessageIds :
          DeleteChat(c, k, done)

SpecChat == Init /\ [][NextChat]_vars

\* folders, with chats stored in them; chat c1 is given the message m1, and
\* m1 is given attachments
NextFolder ==
    \/ \E f \in FolderIds, p \in FolderIds \cup {NULL} :
          InsertOrUpdateFolder(f, p)
    \/ \E f \in FolderIds, p \in FolderIds \cup {NULL} :
          MoveFolderToFolder(f, p)
    \/ \E f \in FolderIds \cup {NULL} : RemoveFolder(f)
    \/ \E c \in ChatIds, n \in ChatNames, f \in FolderIds \cup {NULL} :
          InsertOrUpdateChat(c, n, f, FALSE)
    \/ InsertOrUpdateMessage("m1", "c1")
    \/ attSeq < MaxFolderAttachments /\ InsertOrUpdateAttachment("m1", 0)

SpecFolder == Init /\ [][NextFolder]_vars

\* import_chat into a database of chats, messages and attachments
NextImport ==
    \/ \E c \in ChatIds, n \in ChatNames \cup {NumberedName(<<"N">>, 1)} :
          imports = 0 /\ InsertOrUpdateChat(c, n, NULL, FALSE)
    \/ \E m \in MessageIds, c \in ChatIds :
          imports = 0 /\ InsertOrUpdateMessage(m, c)
    \/ imports = 0 /\ InsertOrUpdateAttachment("m1", 0)
    \/ \E imp \in ImportDatabases, names \in ChatNameLists,
          k \in 0 .. 1 :
          ImportChat(imp, names, NULL, k)

SpecImport == Init /\ [][NextImport]_vars

\* backups of a database whose chats are renamed and deleted
NextBackup ==
    \/ \E n \in ChatNames : InsertOrUpdateChat("c1", n, NULL, FALSE)
    \/ \E r \in chat : DeleteChat(r.id, 0, {})
    \/ ScheduleAutoBackup
    \/ \E r \in backup_schedule : CancelAutoBackup(r.id)
    \/ CreateBackup(BackupPath)
    \/ \E p \in Paths, merge \in BOOLEAN : RestoreBackup(p, merge)

SpecBackup == Init /\ [][NextBackup]_vars

\* the same with no file of an earlier version restored
NextCreateBackup ==
    \/ \E n \in ChatNames : InsertOrUpdateChat("c1", n, NULL, FALSE)
    \/ \E r \in chat : DeleteChat(r.id, 0, {})
    \/ ScheduleAutoBackup
    \/ \E r \in backup_schedule : CancelAutoBackup(r.id)
    \/ CreateBackup(BackupPath)
    \/ \E merge \in BOOLEAN : RestoreBackup(BackupPath, merge)

SpecCreateBackup == Init /\ [][NextCreateBackup]_vars

\* the cache methods, and the clock
NextCache ==
    \/ Tick
    \/ \E k \in CacheKeys : Get(k)
    \/ \E k \in CacheKeys, v \in ModelInfos : Set(k, v)
    \/ \E k \in CacheKeys : Invalidate(k)
    \/ Clear
    \/ CleanupExpired
    \/ GetStats

SpecCache == Init /\ [][NextCache]_vars

\* threads calling the methods of one cache
NextCacheThreads ==
    \/ ThreadTick
    \/ \E t \in Threads, op \in CacheOps, k \in CacheKeys, v \in ModelInfos :
          Call(t, op, IF op \in {"get", "set", "invalidate"} THEN k ELSE None,
               IF op = "set" THEN v ELSE None)
    \/ \E t \in Threads : Acquire(t)
    \/ \E t \in Threads : Release(t)
    \/ \E t \in Threads : GetCheck(t)
    \/ \E t \in Threads : GetRead(t)
    \/ \E t \in Threads : GetReturn(t)
    \/ \E t \in Threads : ThreadSet(t)
    \/ \E t \in Threads : InvalidateCheck(t)
    \/ \E t \in Threads : InvalidateDelete(t)
    \/ \E t \in Threads : ThreadClear(t)
    \/ \E t \in Threads : CleanupCollect(t)
    \/ \E t \in Threads : CleanupDelete(t)
    \/ \E t \in Threads : ThreadGetStats(t)

SpecCacheThreads == Init /\ [][NextCacheThreads]_vars

\* threads calling get_cache()
NextGetCache ==
    \/ \E t \in CacheThreads : GetCacheCall(t)
    \/ \E t \in CacheThreads : GetCacheTest(t)
    \/ \E t \in CacheThreads : GetCacheConstruct(t)
    \/ \E t \in CacheThreads : GetCacheStore(t)
    \/ \E t \in CacheThreads : GetCacheReturn(t)

SpecGetCache == Init /\ [][NextGetCache]_vars

NextStatistics ==
    \/ \E m \in StatModels, n \in TokenCounts, e \in EventIds :
          RecordTokenUsage(m, n, e)
    \/ \E n \in ResponseTimes, e \in EventIds :
          RecordResponseTime("m1", n, e)
    \/ \E e \in EventIds : RecordModelUsage("m1", e)
    \/ \E f \in Dates, t \in DatesTo : GetTokenUsage(f, t)
    \/ \E d \in Dates : ClearStatistics(d)
    \/ StatTick

SpecStatistics == Init /\ [][NextStatistics]_vars

\* gateway operations on their connection, and a reading connection
NextConnection ==
    \/ ConEnter
    \/ \E c \in ChatIds, n \in ChatNames \cup {NumberedName(<<"N">>, 1)},
          raises \in BOOLEAN : ConBodyWrite(c, n, raises)
    \/ ConBodyRead
    \/ ConExit
    \/ ReaderBegin
    \/ ReaderEnd

SpecConnection == Init /\ [][NextConnection]_vars

\* sequential pin_model calls, then one pin_model call on each of two
\* connections, their statements interleaved
NextPinConcurrent ==
    \/ /\ \A k \in PinConnections : pinCon[k].pc = "idle"
       /\ \E m \in Models, i \in Instances : PinModel(m, i)
    \/ \E k \in PinConnections, m \in Models, i \in Instances :
          PinBegin(k, m, i)
    \/ \E k \in PinConnections : PinSelectExisting(k)
    \/ \E k \in PinConnections : PinSelectMax(k)
    \/ \E k \in PinConnections : PinInsert(k)
    \/ \E k \in PinConnections : PinCommit(k)

SpecPinConcurrent == Init /\ [][NextPinConcurrent]_vars

\* generate_numbered_name on every name and list of the bounds
NextNames ==
    /\ nameLast.op = "none"
    /\ \E name \in NameUniverse, compare_list \in CompareLists :
          GenerateNumberedName(name, compare_list)

SpecNames == Init /\ [][NextNames]_vars

\* folders with any parent and a chat stored in them, between calls of
\* remove_folder; a running call takes its steps
NextRemoveFolder ==
    \/ /\ rfStack = << >>
       /\ \E f \in FolderIds, p \in FolderIds \cup {NULL} :
             InsertOrUpdateFolder(f, p)
    \/ /\ rfStack = << >>
       /\ \E f \in FolderIds \cup {NULL} :
             InsertOrUpdateChat("c1", <<"N">>, f, FALSE)
    \/ \E f \in FolderIds \cup {NULL} : RfCall(f)
    \/ RfDelete
    \/ RfSelect
    \/ RfRecurse
    \/ RfReturn

SpecRemoveFolder ==
    Init /\ [][NextRemoveFolder]_vars /\ WF_vars(RfStep)

\* the search dialog: the user types and presses Enter, timers fire, search
\* threads end and the main loop runs idle callbacks, in any order
NextGlobalSearch ==
    \/ \E text \in Texts : OnSearchChanged(text)
    \/ OnSearchActivate
    \/ SearchTimeout
    \/ \E t \in searchThreads, raises \in BOOLEAN : SearchThread(t, raises)
    \/ IdleCallback

SpecGlobalSearch == Init /\ [][NextGlobalSearch]_vars

\* the virtualization manager of one chat: messages are appended, the user
\* scrolls, the manager is enabled and disabled, timers fire
NextVirtualization ==
    \/ Enable
    \/ Disable
    \/ \E v \in ScrollValues : OnScroll(v)
    \/ \E realized \in RealizedSets : UpdateTimeout(realized)
    \/ \E realized \in RealizedSets : UpdateNow(realized)
    \/ OnMessagesLoaded
    \/ AddMessage

SpecVirtualization == Init /\ [][NextVirtualization]_vars

\* older versions leave their tables, then initialize() runs at every start
\* of the program, which stores and deletes rows in between
NextInitialize ==
    \/ \E l \in LegacyTables : LegacyCreate(l)
    \/ Initialize
    \/ \E p \in ProgramRows : InsertRow(p)
    \/ \E t \in {"chat", "model_preferences", "instance"},
          id \in {"c1", "c2", "model1", "model2", "i1", "i2"} :
          DeleteRow(t, id)

SpecInitialize == Init /\ [][NextInitialize]_vars

====
